---- MODULE Spec2Model ----
(***************************************************************************)
(* State-machine model of the ai-book auto-updater:                        *)
(*   - the remote record store (github.js: fetchCompaniesJson /            *)
(*     updateCompaniesJson) and the server's update runs (server.js,       *)
(*     updater.js runDailyUpdate, runSignalEnrichment);                    *)
(*   - the leadership enrichment pass and its consensus merge              *)
(*     (enrich-leadership.js);                                             *)
(*   - the source passes and incremental refreshes with their staleness    *)
(*     test (enrich-signals.js, enrich-apis.js, enrich-news.js);           *)
(*   - the event-driven mutator (updater.js: applyEvent and the event      *)
(*     loop, sort and re-index of runDailyUpdate).                         *)
(* Each subsystem has its own specification over its own variables; the    *)
(* variables of the other subsystems stay at their initial value.          *)
(***************************************************************************)
EXTENDS Integers, Sequences, FiniteSets, TLC

VARIABLES
    \* ---- server / record store ----
    repo,          \* content of companies.json in the remote repository
    localFile,     \* content of the server's local companies.json, or NoFile
    run,           \* run id -> state of one update run (cron or trigger)
    updateLogs,    \* server.js updateLogs, kept per run: the entries run r pushed, in order
    updateSecret,  \* process.env.UPDATE_SECRET, or Unset
    lastStatus,    \* HTTP status of the latest answer to POST /trigger (0: none yet)
    \* ---- mergeLeadership on its own ----
    mergeIn,       \* resultsByProvider: responding provider -> parsed response
    mergeOut,      \* the list mergeLeadership returned
    mergeDone,     \* whether mergeLeadership has been applied to mergeIn
    \* ---- one run of enrich-leadership.js ----
    companies,     \* the loaded collection: index -> record
    loaded,        \* the collection as loadCompanies returned it
    KEYS,          \* the providers whose API key is set
    pass,          \* arguments, position and locals of enrichLeadership / main
    calls,         \* provider -> number of calls made to it
    trail,         \* what happened to each batch so far, in order
    disk,          \* what saveCompanies wrote ([saved |-> FALSE] if nothing)
    \* ---- source passes over one collection (enrichHN, enrichNews) ----
    source,        \* the source whose passes run: "hn" or "news"
    records,       \* index -> the source's attributes on that record
    fundingValue,  \* index -> the record's fundingValue (0: none)
    now,           \* Date.now(), in whole days
    sweep,         \* position and locals of the pass in progress
    lastStep,      \* what the pass did with the record it handled last
    \* ---- one run of runDailyUpdate's event loop (updater.js) ----
    book,          \* the companies array of the run
    news,          \* the events searchForNews returned that are still to apply
    daily,         \* position and locals of runDailyUpdate
    lastEvent,     \* the event handled last, and the array before it
    \* ---- whole runs of the enrichment programs ----
    store,         \* the saved companies.json: index -> group -> attributes
    funds,         \* index -> the record's fundingValue (0: none)
    mem,           \* the array of the running process (<<>>: no process)
    proc,          \* program, position and locals of the run
    \* ---- one consensus batch of enrichLeadership ----
    fan            \* the calls of the batch, their outcomes and the list written

serverVars == <<repo, localFile, run, updateLogs, updateSecret, lastStatus>>
mergeVars == <<mergeIn, mergeOut, mergeDone>>
leadVars == <<companies, loaded, KEYS, pass, calls, trail, disk>>
sourceVars == <<source, records, fundingValue, now, sweep, lastStep>>
mutatorVars == <<book, news, daily, lastEvent>>
processVars == <<store, funds, mem, proc>>
fanVars == <<fan>>

(***************************************************************************)
(* The server's two entry points, each with one run in flight: the run the  *)
(* cron callback starts and the run an accepted POST /trigger starts.       *)
(***************************************************************************)
Runs == {"cron", "trigger"}

(***************************************************************************)
(* The record store.  The collection is abstracted to the set of changes   *)
(* it contains: <<"ev", r>> the event changes run r applied, <<"sig", r>>  *)
(* the signal refresh of run r, <<"ext", 0>> a change committed by another *)
(* client.  The version token of the Contents API is the git blob id of    *)
(* the file, a collision-free function of the content.                     *)
(***************************************************************************)
NoFile == [exists |-> FALSE, content |-> {}]
FileOf(content) == [exists |-> TRUE, content |-> content]
NoSha == <<"none", {}>>
Unset == "Unset"

BlobSha(content) == <<"blob", content>>

\* updateCompaniesJson's PUT: the Contents API accepts the write iff the sha
\* sent is the blob id of the file the repository holds now (else 409).
PutAccepted(sentSha) == sentSha = BlobSha(repo)

\* The sha updateCompaniesJson sends with its PUT: the one its own GET
\* (lines 34-38) just returned, not the one the run's load returned.
ShaForPut(r) == run[r].sha

IdleRun ==
    [pc |-> "idle", acked |-> FALSE,
     companies |-> {}, changed |-> FALSE,
     loadedSha |-> NoSha, sha |-> NoSha,
     dailyPut |-> "none", dailyPutStale |-> FALSE,
     sigCount |-> 0, sigPut |-> "none"]

ServerInit ==
    /\ repo = {}
    /\ localFile \in {NoFile, FileOf({})}
    /\ run = [r \in Runs |-> IdleRun]
    /\ updateLogs = [r \in Runs |-> <<>>]
    /\ updateSecret \in {Unset, "s3cret"}
    /\ lastStatus = 0

\* updateLogs.push(...) by the handler of run r.
LogPush(r, entry) == [updateLogs EXCEPT ![r] = Append(@, entry)]

\* The locals of a run that has returned are gone.
Finished(rec) == [rec EXCEPT !.pc = "done", !.companies = {}, !.sha = NoSha]

\* Faulty variant: the handler's catch only prints the error.
FailWithoutEntry(r) ==
    /\ run' = [run EXCEPT ![r] = Finished(@)]
    /\ UNCHANGED updateLogs

\* The run's promise rejected: the handler's catch pushes an error entry.
Fail(r) ==
    /\ run' = [run EXCEPT ![r] = Finished(@)]
    /\ updateLogs' = LogPush(r, "error")

\* What a request can carry as its secret (header or query parameter);
\* Unset is a request that carries none.
Supplied == {Unset, "s3cret", "wrong"}

\* Faulty variant: the guard does not look whether a secret is configured.
UnauthorizedIfDifferent(secret) == secret # updateSecret

\* server.js line 30: the guard of POST /trigger.
Unauthorized(secret) == secret # updateSecret /\ updateSecret # Unset

\* runSignalEnrichment starts with loadCompanies: the local file when it
\* exists (read synchronously), else a fetch of the raw file from GitHub.
StartSignals(r, rec) ==
    IF localFile.exists
      THEN [rec EXCEPT !.pc = "sigEnrich", !.companies = localFile.content]
      ELSE [rec EXCEPT !.pc = "sigLoad"]

\* POST /trigger answered 401: nothing else happens.
TriggerRejected(secret) ==
    /\ Unauthorized(secret)
    /\ lastStatus' = 401
    /\ UNCHANGED <<repo, localFile, run, updateLogs, updateSecret>>
    /\ UNCHANGED <<mergeVars, leadVars, sourceVars, mutatorVars, processVars, fanVars>>

\* POST /trigger accepted: the acknowledgment is sent, then runDailyUpdate
\* is entered and issues its GET of companies.json.
TriggerAccepted(secret) ==
    /\ ~Unauthorized(secret)
    /\ run["trigger"].pc = "idle"
    /\ run' = [run EXCEPT !["trigger"] = [IdleRun EXCEPT !.pc = "fetch",
                                                        !.acked = TRUE]]
    /\ lastStatus' = 200
    /\ UNCHANGED <<repo, localFile, updateLogs, updateSecret>>
    /\ UNCHANGED <<mergeVars, leadVars, sourceVars, mutatorVars, processVars, fanVars>>

\* The cron callback fires: runDailyUpdate is entered.
CronTick ==
    /\ run["cron"].pc = "idle"
    /\ run' = [run EXCEPT !["cron"] = [IdleRun EXCEPT !.pc = "fetch"]]
    /\ UNCHANGED <<repo, localFile, updateLogs, updateSecret, lastStatus>>
    /\ UNCHANGED <<mergeVars, leadVars, sourceVars, mutatorVars, processVars, fanVars>>

\* fetchCompaniesJson returns the file.  The response carries the file's
\* sha, which the function does not return: loadedSha only records it.
FetchCompaniesOk(r) ==
    /\ run[r].pc = "fetch"
    /\ run' = [run EXCEPT ![r].pc = "search",
                          ![r].companies = repo,
                          ![r].loadedSha = BlobSha(repo)]
    /\ UNCHANGED <<repo, localFile, updateLogs, updateSecret, lastStatus>>
    /\ UNCHANGED <<mergeVars, leadVars, sourceVars, mutatorVars, processVars, fanVars>>

\* fetchCompaniesJson throws (no GITHUB_TOKEN, or the response is not ok).
FetchCompaniesFail(r) ==
    /\ run[r].pc = "fetch"
    /\ Fail(r)
    /\ UNCHANGED <<repo, localFile, updateSecret, lastStatus>>
    /\ UNCHANGED <<mergeVars, leadVars, sourceVars, mutatorVars, processVars, fanVars>>

\* searchForNews throws (the Anthropic call is outside its try).
SearchThrows(r) ==
    /\ run[r].pc = "search"
    /\ Fail(r)
    /\ UNCHANGED <<repo, localFile, updateSecret, lastStatus>>
    /\ UNCHANGED <<mergeVars, leadVars, sourceVars, mutatorVars, processVars, fanVars>>

\* searchForNews returns no event, or no event changes a record: the run
\* returns its summary without saving; the handler logs it and goes on to
\* runSignalEnrichment.
SearchNoChanges(r) ==
    /\ run[r].pc = "search"
    /\ run' = [run EXCEPT ![r] = StartSignals(r, run[r])]
    /\ updateLogs' = LogPush(r, "ok")
    /\ UNCHANGED <<repo, localFile, updateSecret, lastStatus>>
    /\ UNCHANGED <<mergeVars, leadVars, sourceVars, mutatorVars, processVars, fanVars>>

\* searchForNews returns events of which at least one is applied; the
\* collection is sorted and re-indexed and updateCompaniesJson issues its GET.
SearchApplies(r) ==
    /\ run[r].pc = "search"
    /\ run' = [run EXCEPT ![r].pc = "saveGet",
                          ![r].changed = TRUE,
                          ![r].companies = @ \cup {<<"ev", r>>}]
    /\ UNCHANGED <<repo, localFile, updateLogs, updateSecret, lastStatus>>
    /\ UNCHANGED <<mergeVars, leadVars, sourceVars, mutatorVars, processVars, fanVars>>

\* updateCompaniesJson lines 34-38: the GET that reads the current sha.
SaveGetOk(r) ==
    /\ run[r].pc = "saveGet"
    /\ run' = [run EXCEPT ![r].pc = "savePut", ![r].sha = BlobSha(repo)]
    /\ UNCHANGED <<repo, localFile, updateLogs, updateSecret, lastStatus>>
    /\ UNCHANGED <<mergeVars, leadVars, sourceVars, mutatorVars, processVars, fanVars>>

SaveGetFail(r) ==
    /\ run[r].pc = "saveGet"
    /\ Fail(r)
    /\ UNCHANGED <<repo, localFile, updateSecret, lastStatus>>
    /\ UNCHANGED <<mergeVars, leadVars, sourceVars, mutatorVars, processVars, fanVars>>

\* updateCompaniesJson lines 46-61: the PUT is accepted; runDailyUpdate
\* returns, the handler logs the result and starts runSignalEnrichment.
SavePutOk(r) ==
    /\ run[r].pc = "savePut"
    /\ PutAccepted(ShaForPut(r))
    /\ repo' = run[r].companies
    /\ run' = [run EXCEPT ![r] = StartSignals(r,
                   [run[r] EXCEPT !.dailyPut = "ok",
                                  !.dailyPutStale = (run[r].loadedSha # BlobSha(repo))])]
    /\ updateLogs' = LogPush(r, "ok")
    /\ UNCHANGED <<localFile, updateSecret, lastStatus>>
    /\ UNCHANGED <<mergeVars, leadVars, sourceVars, mutatorVars, processVars, fanVars>>

\* The PUT is answered 409: the sha sent is not the file's current one.
SavePutConflict(r) ==
    /\ run[r].pc = "savePut"
    /\ ~PutAccepted(ShaForPut(r))
    /\ run' = [run EXCEPT ![r] = Finished([@ EXCEPT !.dailyPut = "conflict",
                                                    !.dailyPutStale = (run[r].loadedSha # BlobSha(repo))])]
    /\ updateLogs' = LogPush(r, "error")
    /\ UNCHANGED <<repo, localFile, updateSecret, lastStatus>>
    /\ UNCHANGED <<mergeVars, leadVars, sourceVars, mutatorVars, processVars, fanVars>>

\* loadCompanies without a local file: the raw file is fetched.
SigLoadRemoteOk(r) ==
    /\ run[r].pc = "sigLoad"
    /\ run' = [run EXCEPT ![r].pc = "sigEnrich", ![r].companies = repo]
    /\ UNCHANGED <<repo, localFile, updateLogs, updateSecret, lastStatus>>
    /\ UNCHANGED <<mergeVars, leadVars, sourceVars, mutatorVars, processVars, fanVars>>

SigLoadRemoteFail(r) ==
    /\ run[r].pc = "sigLoad"
    /\ Fail(r)
    /\ UNCHANGED <<repo, localFile, updateSecret, lastStatus>>
    /\ UNCHANGED <<mergeVars, leadVars, sourceVars, mutatorVars, processVars, fanVars>>

\* enrichGitHubIncremental and refreshNewsRSS refreshed nothing
\* (ghCount + newsCount = 0): nothing is saved.
SigEnrichNothing(r) ==
    /\ run[r].pc = "sigEnrich"
    /\ run' = [run EXCEPT ![r] = Finished(@)]
    /\ UNCHANGED <<repo, localFile, updateLogs, updateSecret, lastStatus>>
    /\ UNCHANGED <<mergeVars, leadVars, sourceVars, mutatorVars, processVars, fanVars>>

\* They refreshed some record: saveCompaniesLocal, then updateCompaniesJson
\* issues its GET (GITHUB_TOKEN is set, or the run's load had thrown).
SigEnrichSome(r) ==
    /\ run[r].pc = "sigEnrich"
    /\ LET cs == run[r].companies \cup {<<"sig", r>>} IN
         /\ run' = [run EXCEPT ![r].pc = "sigGet", ![r].companies = cs,
                               ![r].sigCount = 1]
         /\ localFile' = FileOf(cs)
    /\ UNCHANGED <<repo, updateLogs, updateSecret, lastStatus>>
    /\ UNCHANGED <<mergeVars, leadVars, sourceVars, mutatorVars, processVars, fanVars>>

SigGetOk(r) ==
    /\ run[r].pc = "sigGet"
    /\ run' = [run EXCEPT ![r].pc = "sigPut", ![r].sha = BlobSha(repo)]
    /\ UNCHANGED <<repo, localFile, updateLogs, updateSecret, lastStatus>>
    /\ UNCHANGED <<mergeVars, leadVars, sourceVars, mutatorVars, processVars, fanVars>>

SigGetFail(r) ==
    /\ run[r].pc = "sigGet"
    /\ Fail(r)
    /\ UNCHANGED <<repo, localFile, updateSecret, lastStatus>>
    /\ UNCHANGED <<mergeVars, leadVars, sourceVars, mutatorVars, processVars, fanVars>>

SigPutOk(r) ==
    /\ run[r].pc = "sigPut"
    /\ PutAccepted(ShaForPut(r))
    /\ repo' = run[r].companies
    /\ run' = [run EXCEPT ![r] = Finished([@ EXCEPT !.sigPut = "ok"])]
    /\ UNCHANGED <<localFile, updateLogs, updateSecret, lastStatus>>
    /\ UNCHANGED <<mergeVars, leadVars, sourceVars, mutatorVars, processVars, fanVars>>

\* The 409 thrown by updateCompaniesJson reaches the handler's catch.
SigPutConflict(r) ==
    /\ run[r].pc = "sigPut"
    /\ ~PutAccepted(ShaForPut(r))
    /\ run' = [run EXCEPT ![r] = Finished([@ EXCEPT !.sigPut = "conflict"])]
    /\ updateLogs' = LogPush(r, "error")
    /\ UNCHANGED <<repo, localFile, updateSecret, lastStatus>>
    /\ UNCHANGED <<mergeVars, leadVars, sourceVars, mutatorVars, processVars, fanVars>>

\* Another client of the repository commits a change to companies.json.
ExternalWrite ==
    /\ <<"ext", 0>> \notin repo
    /\ repo' = repo \cup {<<"ext", 0>>}
    /\ UNCHANGED <<localFile, run, updateLogs, updateSecret, lastStatus>>
    /\ UNCHANGED <<mergeVars, leadVars, sourceVars, mutatorVars, processVars, fanVars>>

ServerNext ==
    \/ \E s \in Supplied : TriggerRejected(s)
    \/ \E s \in Supplied : TriggerAccepted(s)
    \/ CronTick
    \/ \E r \in Runs : FetchCompaniesOk(r)
    \/ \E r \in Runs : FetchCompaniesFail(r)
    \/ \E r \in Runs : SearchThrows(r)
    \/ \E r \in Runs : SearchNoChanges(r)
    \/ \E r \in Runs : SearchApplies(r)
    \/ \E r \in Runs : SaveGetOk(r)
    \/ \E r \in Runs : SaveGetFail(r)
    \/ \E r \in Runs : SavePutOk(r)
    \/ \E r \in Runs : SavePutConflict(r)
    \/ \E r \in Runs : SigLoadRemoteOk(r)
    \/ \E r \in Runs : SigLoadRemoteFail(r)
    \/ \E r \in Runs : SigEnrichNothing(r)
    \/ \E r \in Runs : SigEnrichSome(r)
    \/ \E r \in Runs : SigGetOk(r)
    \/ \E r \in Runs : SigGetFail(r)
    \/ \E r \in Runs : SigPutOk(r)
    \/ \E r \in Runs : SigPutConflict(r)
    \/ ExternalWrite


(***************************************************************************)
(* Leadership enrichment (enrich-leadership.js).                           *)
(***************************************************************************)

\* Object.keys(PROVIDERS), in the order of the object literal.
ProviderOrder == <<"claude", "openai", "gemini", "grok">>
PROVIDERS == {ProviderOrder[k] : k \in 1..Len(ProviderOrder)}

\* The person names that occur, and name.toLowerCase().trim() on them.
\* "" is the falsy name of a malformed entry (also a missing or null name).
PersonNames == {"Jane Doe", "JANE DOE ", "John Roe", "Bob Lee", "Ann Kim", "Old Cto"}
NormName(n) ==
    CASE n = "Jane Doe"  -> "jane doe"
      [] n = "JANE DOE " -> "jane doe"
      [] n = "John Roe"  -> "john roe"
      [] n = "Bob Lee"   -> "bob lee"
      [] n = "Ann Kim"   -> "ann kim"
      [] n = "Old Cto"   -> "old cto"
      [] OTHER           -> n

Leader(role, name) == [role |-> role, name |-> name]

\* mergeLeadership line 178 / enrichLeadership line 307: l.role && l.name.
WellFormed(l) == l.role # "" /\ l.name # ""

\* mergeLeadership line 179: the key a vote is counted under.
VoteKey(l) == <<l.role, NormName(l.name)>>

\* A provider's value for one company: an array of entries, or anything
\* else (the company's key is missing, or its value is no array).
NotArray == [isArray |-> FALSE, list |-> <<>>]
ArrayOf(list) == [isArray |-> TRUE, list |-> list]

\* parsed[companyName]
LeadersOf(parsed, companyName) ==
    IF companyName \in DOMAIN parsed THEN parsed[companyName] ELSE NotArray

\* mergeLeadership lines 177-185: the votes after one more entry l.
RECURSIVE BumpVote(_, _, _)
BumpVote(votes, l, k) ==
    IF k > Len(votes)
      THEN Append(votes, [key |-> VoteKey(l), role |-> l.role,
                          name |-> l.name, count |-> 1])
      ELSE IF votes[k].key = VoteKey(l)
             THEN [votes EXCEPT ![k].count = @ + 1]
             ELSE BumpVote(votes, l, k + 1)

CountVote(votes, l) ==
    IF WellFormed(l) THEN BumpVote(votes, l, 1) ELSE votes

RECURSIVE CountLeaders(_, _, _)
CountLeaders(votes, list, k) ==
    IF k > Len(list) THEN votes
    ELSE CountLeaders(CountVote(votes, list[k]), list, k + 1)

\* mergeLeadership lines 174-186: the votes of all providers, the providers
\* taken in the insertion order of resultsByProvider (that of providerNames).
RECURSIVE CollectVotes(_, _, _, _)
CollectVotes(votes, resultsByProvider, companyName, k) ==
    IF k > Len(ProviderOrder) THEN votes
    ELSE LET prov == ProviderOrder[k] IN
         IF prov \notin DOMAIN resultsByProvider
           THEN CollectVotes(votes, resultsByProvider, companyName, k + 1)
           ELSE LET leaders == LeadersOf(resultsByProvider[prov], companyName) IN
                CollectVotes(
                    IF leaders.isArray THEN CountLeaders(votes, leaders.list, 1)
                                       ELSE votes,
                    resultsByProvider, companyName, k + 1)

\* mergeLeadership lines 188-189.
Threshold(resultsByProvider) ==
    IF Cardinality(DOMAIN resultsByProvider) > 1 THEN 2 ELSE 1

MaxOf(S) == CHOOSE x \in S : \A y \in S : y <= x

\* .sort((a, b) => b.count - a.count): a stable sort by descending count.
RECURSIVE SortFrom(_, _)
SortFrom(votes, c) ==
    IF c < 1 THEN <<>>
    ELSE SelectSeq(votes, LAMBDA v : v.count = c) \o SortFrom(votes, c - 1)

SortByCountDesc(votes) ==
    IF votes = <<>> THEN <<>>
    ELSE SortFrom(votes, MaxOf({votes[k].count : k \in 1..Len(votes)}))

\* mergeLeadership lines 171-194.
mergeLeadership(resultsByProvider, companyName) ==
    LET votes == CollectVotes(<<>>, resultsByProvider, companyName, 1)
        threshold == Threshold(resultsByProvider)
        kept == SelectSeq(votes, LAMBDA v : v.count >= threshold)
        sorted == SortByCountDesc(kept)
    IN  [k \in 1..Len(sorted) |-> Leader(sorted[k].role, sorted[k].name)]

(***************************************************************************)
(* mergeLeadership applied to every bounded input (SpecMerge): the         *)
(* responses of the responding providers for one company.                  *)
(***************************************************************************)
MaxLeaders == 2    \* entries in one provider's list for one company

TheCompany == "Acme AI"

\* The entries a provider proposes; the last one is malformed (no name).
MergeEntries ==
    {Leader("CEO", "Jane Doe"), Leader("CEO", "JANE DOE "),
     Leader("CEO", "John Roe"), Leader("CEO", "")}

SeqsUpTo(S, n) == UNION {[1..k -> S] : k \in 0..n}

MergeValues == {NotArray} \cup {ArrayOf(l) : l \in SeqsUpTo(MergeEntries, MaxLeaders)}

\* resultsByProvider: at least one provider responded (line 293).
MergeInputs ==
    UNION {[R -> {[n \in {TheCompany} |-> v] : v \in MergeValues}] :
               R \in SUBSET PROVIDERS \ {{}}}

MergeInit ==
    /\ mergeIn \in MergeInputs
    /\ mergeOut = <<>>
    /\ mergeDone = FALSE

MergeIdle ==
    /\ mergeIn = [p \in {} |-> 0]
    /\ mergeOut = <<>>
    /\ mergeDone = FALSE

ApplyMerge ==
    /\ ~mergeDone
    /\ mergeOut' = mergeLeadership(mergeIn, TheCompany)
    /\ mergeDone' = TRUE
    /\ UNCHANGED mergeIn
    /\ UNCHANGED <<serverVars, leadVars, sourceVars, mutatorVars, processVars, fanVars>>

MergeNext == ApplyMerge

(***************************************************************************)
(* One run of enrich-leadership.js (SpecLead): main and enrichLeadership.  *)
(***************************************************************************)
NumCompanies == 3   \* records in the collection
BATCH_SIZE == 2     \* 20 in the source (line 15); scaled with NumCompanies

Indices == 1..NumCompanies
NameOf(i) == <<"company", i>>

NoLeadership == [present |-> FALSE, list |-> <<>>]
LeadershipOf(list) == [present |-> TRUE, list |-> list]

\* !c.leadership || c.leadership.length === 0
LacksLeadership(c) == ~c.leadership.present \/ c.leadership.list = <<>>

\* The records a collection can hold when a run starts: with or without a
\* known CEO ("" is the absent ceo field), never enriched or enriched by an
\* earlier run.
InitialRecords ==
    {[ceo |-> ceo, leadership |-> NoLeadership,
      leadershipSource |-> "", leadershipEnrichedAt |-> 0] :
         ceo \in {"", "Ann Kim"}}
    \cup
    {[ceo |-> ceo, leadership |-> LeadershipOf(<<Leader("CTO", "Old Cto")>>),
      leadershipSource |-> "claude", leadershipEnrichedAt |-> 1] :
         ceo \in {"", "Ann Kim"}}

\* --model=...: main accepts the four providers and 'all'; the runs taken
\* here select one of two providers, or all.
Models == {"claude", "grok", "all"}

\* The sets of API keys the environment holds in the runs taken here.
KeyChoices == {{}, {"claude"}, {"openai", "grok"}, {"claude", "openai", "gemini"}}

\* What one provider's response holds for one company.
LeadValues ==
    {NotArray, ArrayOf(<<>>),
     ArrayOf(<<Leader("CEO", "Jane Doe")>>),
     ArrayOf(<<Leader("CTO", "Bob Lee"), Leader("CEO", "")>>)}

\* enrichLeadership lines 204-210.
providerNames(modelArg) ==
    IF modelArg = "all" THEN {p \in PROVIDERS : p \in KEYS} ELSE {modelArg}

\* Faulty variant: the key validation is skipped.
KeyMissingUnchecked(modelArg) == FALSE

\* enrichLeadership lines 213-218: the run exits when a selected provider
\* has no key.
KeyMissing(modelArg) == \E p \in providerNames(modelArg) : p \notin KEYS

\* enrichLeadership lines 223-225, as the sequence of the records' indices.
RECURSIVE Filter(_, _, _)
Filter(cs, force, i) ==
    IF i > NumCompanies THEN <<>>
    ELSE (IF force \/ LacksLeadership(cs[i]) THEN <<i>> ELSE <<>>)
         \o Filter(cs, force, i + 1)

\* Faulty variant: the --force test is dropped, every record is taken.
needsEnrichmentIgnoringLeadership(cs, force) == Filter(cs, TRUE, 1)

needsEnrichment(cs, force) == Filter(cs, force, 1)

\* needsEnrichment.slice(i, i + BATCH_SIZE), as positions of needsEnrichment.
BatchPositions(needs, i) ==
    {k \in 1..Len(needs) : i < k /\ k <= i + BATCH_SIZE}

Min(a, b) == IF a < b THEN a ELSE b

LeadInit ==
    /\ companies \in [Indices -> InitialRecords]
    /\ loaded = companies
    /\ KEYS \in KeyChoices
    /\ pass \in [pc : {"main"}, modelArg : Models, force : BOOLEAN,
                 dryRun : BOOLEAN, needs : {<<>>}, i : {0}, j : {0},
                 results : {{}}, enriched : {0}, fallbacks : {0}]
    /\ calls = [p \in PROVIDERS |-> 0]
    /\ trail = <<>>
    /\ disk = [saved |-> FALSE, content |-> companies]

LeadIdle ==
    /\ companies = [i \in {} |-> 0]
    /\ loaded = companies
    /\ KEYS = {}
    /\ pass = [pc |-> "off"]
    /\ calls = [p \in PROVIDERS |-> 0]
    /\ trail = <<>>
    /\ disk = [saved |-> FALSE, content |-> companies]

\* An entry of the trail: what became of the batch at offset i, or (kind
\* "apply") that record x was given its n computed leaders.
BatchEntry(kind, i) == [kind |-> kind, i |-> i, x |-> 0, n |-> 0]

\* The for loop's step (i += BATCH_SIZE) and test; past the last batch
\* enrichLeadership returns to main.
NextBatch(ps) ==
    IF ps.i + BATCH_SIZE < Len(ps.needs)
      THEN [ps EXCEPT !.pc = "batch", !.i = @ + BATCH_SIZE, !.j = 0, !.results = {}]
      ELSE [ps EXCEPT !.pc = "returned", !.j = 0, !.results = {}]

\* enrichLeadership lines 213-218: process.exit(1).
StartExit ==
    /\ pass.pc = "main"
    /\ KeyMissing(pass.modelArg)
    /\ pass' = [pass EXCEPT !.pc = "exited"]
    /\ UNCHANGED <<companies, loaded, KEYS, calls, trail, disk>>
    /\ UNCHANGED <<serverVars, mergeVars, sourceVars, mutatorVars, processVars, fanVars>>

\* enrichLeadership lines 228-231: nothing to do, it returns 0.
StartNothing ==
    /\ pass.pc = "main"
    /\ ~KeyMissing(pass.modelArg)
    /\ needsEnrichment(companies, pass.force) = <<>>
    /\ pass' = [pass EXCEPT !.pc = "returned"]
    /\ UNCHANGED <<companies, loaded, KEYS, calls, trail, disk>>
    /\ UNCHANGED <<serverVars, mergeVars, sourceVars, mutatorVars, processVars, fanVars>>

\* enrichLeadership lines 223-237: the loop is entered.
StartLoop ==
    /\ pass.pc = "main"
    /\ ~KeyMissing(pass.modelArg)
    /\ needsEnrichment(companies, pass.force) # <<>>
    /\ pass' = [pass EXCEPT !.pc = "batch",
                            !.needs = needsEnrichment(companies, pass.force)]
    /\ UNCHANGED <<companies, loaded, KEYS, calls, trail, disk>>
    /\ UNCHANGED <<serverVars, mergeVars, sourceVars, mutatorVars, processVars, fanVars>>

\* Lines 242-245: --dry-run skips the batch.
BatchDryRun ==
    /\ pass.pc = "batch"
    /\ pass.dryRun
    /\ pass' = NextBatch(pass)
    /\ trail' = Append(trail, BatchEntry("dry-run", pass.i))
    /\ UNCHANGED <<companies, loaded, KEYS, calls, disk>>
    /\ UNCHANGED <<serverVars, mergeVars, sourceVars, mutatorVars, processVars, fanVars>>

Called(ps) == [p \in PROVIDERS |->
                  IF p \in providerNames(ps.modelArg) THEN calls[p] + 1 ELSE calls[p]]

\* Faulty variant: the loop is left (break) where the code continues.
BatchAllFailedBreaks ==
    /\ pass.pc = "batch"
    /\ ~pass.dryRun
    /\ pass.modelArg = "all"
    /\ calls' = Called(pass)
    /\ pass' = [pass EXCEPT !.pc = "returned"]
    /\ trail' = Append(trail, BatchEntry("all-failed", pass.i))
    /\ UNCHANGED <<companies, loaded, KEYS, disk>>
    /\ UNCHANGED <<serverVars, mergeVars, sourceVars, mutatorVars, processVars, fanVars>>

\* Lines 256-271 and 293-297: consensus mode, every call has settled and no
\* provider gave a parsed response.
BatchAllFailed ==
    /\ pass.pc = "batch"
    /\ ~pass.dryRun
    /\ pass.modelArg = "all"
    /\ calls' = Called(pass)
    /\ pass' = NextBatch(pass)
    /\ trail' = Append(trail, BatchEntry("all-failed", pass.i))
    /\ UNCHANGED <<companies, loaded, KEYS, disk>>
    /\ UNCHANGED <<serverVars, mergeVars, sourceVars, mutatorVars, processVars, fanVars>>

\* Lines 256-271: consensus mode, the providers in ok gave a parsed response.
BatchAllResponded(ok) ==
    /\ pass.pc = "batch"
    /\ ~pass.dryRun
    /\ pass.modelArg = "all"
    /\ ok # {}
    /\ ok \subseteq providerNames(pass.modelArg)
    /\ calls' = Called(pass)
    /\ pass' = [pass EXCEPT !.pc = "apply", !.results = ok, !.j = 1]
    /\ trail' = Append(trail, BatchEntry("responded", pass.i))
    /\ UNCHANGED <<companies, loaded, KEYS, disk>>
    /\ UNCHANGED <<serverVars, mergeVars, sourceVars, mutatorVars, processVars, fanVars>>

\* Lines 273-277: single-provider mode, the response parsed.
BatchSingleResponded ==
    /\ pass.pc = "batch"
    /\ ~pass.dryRun
    /\ pass.modelArg # "all"
    /\ calls' = Called(pass)
    /\ pass' = [pass EXCEPT !.pc = "apply", !.results = {pass.modelArg}, !.j = 1]
    /\ trail' = Append(trail, BatchEntry("responded", pass.i))
    /\ UNCHANGED <<companies, loaded, KEYS, disk>>
    /\ UNCHANGED <<serverVars, mergeVars, sourceVars, mutatorVars, processVars, fanVars>>

\* Faulty variant: the test for an existing leadership list is dropped.
FallBackAfterFailureOverwriting(c) ==
    IF c.ceo # ""
      THEN [c EXCEPT !.leadership = LeadershipOf(<<Leader("CEO", c.ceo)>>),
                     !.leadershipEnrichedAt = 1]
      ELSE c

\* Lines 281-287: the fallback of one record after the provider failed.
FallBackAfterFailure(c) ==
    IF c.ceo # "" /\ LacksLeadership(c)
      THEN [c EXCEPT !.leadership = LeadershipOf(<<Leader("CEO", c.ceo)>>),
                     !.leadershipEnrichedAt = 1]
      ELSE c

FellBack(c) == c.ceo # "" /\ LacksLeadership(c)

\* Lines 278-290: single-provider mode, the call or the parse threw.
BatchSingleFailed ==
    /\ pass.pc = "batch"
    /\ ~pass.dryRun
    /\ pass.modelArg # "all"
    /\ calls' = Called(pass)
    /\ LET batch == {pass.needs[k] : k \in BatchPositions(pass.needs, pass.i)} IN
         /\ companies' = [x \in Indices |->
                             IF x \in batch THEN FallBackAfterFailure(companies[x])
                                            ELSE companies[x]]
         /\ pass' = [NextBatch(pass) EXCEPT
                        !.fallbacks = @ + Cardinality({x \in batch : FellBack(companies[x])})]
    /\ trail' = Append(trail, BatchEntry("single-failed", pass.i))
    /\ UNCHANGED <<loaded, KEYS, disk>>
    /\ UNCHANGED <<serverVars, mergeVars, sourceVars, mutatorVars, processVars, fanVars>>

\* Line 276 with a response that parses to null: results[p] is null, and
\* line 306 throws; main's catch exits the process.
BatchSingleNull ==
    /\ pass.pc = "batch"
    /\ ~pass.dryRun
    /\ pass.modelArg # "all"
    /\ calls' = Called(pass)
    /\ pass' = [pass EXCEPT !.pc = "crashed"]
    /\ trail' = Append(trail, BatchEntry("crashed", pass.i))
    /\ UNCHANGED <<companies, loaded, KEYS, disk>>
    /\ UNCHANGED <<serverVars, mergeVars, sourceVars, mutatorVars, processVars, fanVars>>

\* Faulty variant: the filter on role and name is dropped.
SingleLeadersUnfiltered(raw) ==
    IF raw.isArray
      THEN [k \in 1..Len(raw.list) |-> Leader(raw.list[k].role, raw.list[k].name)]
      ELSE <<>>

\* Line 307: the single provider's list, filtered.
SingleLeaders(raw) ==
    IF raw.isArray
      THEN LET kept == SelectSeq(raw.list, WellFormed) IN
           [k \in 1..Len(kept) |-> Leader(kept[k].role, kept[k].name)]
      ELSE <<>>

\* Lines 301-308.
LeadersFor(ps, resultsByProvider, companyName) ==
    IF ps.modelArg = "all"
      THEN mergeLeadership(resultsByProvider, companyName)
      ELSE SingleLeaders(LeadersOf(resultsByProvider[ps.modelArg], companyName))

\* Faulty variant: the CEO fallback is taken only by a record without a list, as in
\* the fallback after a failed call.
ApplyLeadersGuarded(c, leaders, ps) ==
    IF Len(leaders) > 0
      THEN [c EXCEPT !.leadership = LeadershipOf(leaders),
                     !.leadershipEnrichedAt = 1,
                     !.leadershipSource =
                         IF ps.modelArg = "all" THEN "consensus" ELSE ps.modelArg]
      ELSE IF c.ceo # "" /\ (~c.leadership.present \/ c.leadership.list = <<>>)
        THEN [c EXCEPT !.leadership = LeadershipOf(<<Leader("CEO", c.ceo)>>),
                       !.leadershipEnrichedAt = 1,
                       !.leadershipSource = "fallback"]
        ELSE c

\* Lines 310-322: the record after its leaders were computed.
ApplyLeaders(c, leaders, ps) ==
    IF Len(leaders) > 0
      THEN [c EXCEPT !.leadership = LeadershipOf(leaders),
                     !.leadershipEnrichedAt = 1,
                     !.leadershipSource =
                         IF ps.modelArg = "all" THEN "consensus" ELSE ps.modelArg]
      ELSE IF c.ceo # ""
        THEN [c EXCEPT !.leadership = LeadershipOf(<<Leader("CEO", c.ceo)>>),
                       !.leadershipEnrichedAt = 1,
                       !.leadershipSource = "fallback"]
        ELSE c

\* Lines 300-323, one iteration: the record at position j of the batch.  What
\* the responses hold for this record is drawn here, when the code reads it.
ApplyCompany(values) ==
    /\ pass.pc = "apply"
    /\ LET x == pass.needs[pass.i + pass.j]
           resultsByProvider == [p \in pass.results |->
                                    [n \in {NameOf(x)} |-> values[p]]]
           leaders == LeadersFor(pass, resultsByProvider, NameOf(x))
           ps == [pass EXCEPT
                    !.enriched = IF Len(leaders) > 0 THEN @ + 1 ELSE @,
                    !.fallbacks = IF Len(leaders) = 0 /\ companies[x].ceo # ""
                                    THEN @ + 1 ELSE @]
       IN
         /\ companies' = [companies EXCEPT ![x] = ApplyLeaders(@, leaders, pass)]
         /\ pass' = IF pass.j < Cardinality(BatchPositions(pass.needs, pass.i))
                      THEN [ps EXCEPT !.j = @ + 1]
                      ELSE NextBatch(ps)
         /\ trail' = Append(trail, [kind |-> "apply", i |-> pass.i, x |-> x,
                                     n |-> Len(leaders)])
    /\ UNCHANGED <<loaded, KEYS, calls, disk>>
    /\ UNCHANGED <<serverVars, mergeVars, sourceVars, mutatorVars, processVars, fanVars>>

\* main lines 350-359: save when enrichLeadership reported changes.
MainSave ==
    /\ pass.pc = "returned"
    /\ pass' = [pass EXCEPT !.pc = "done"]
    /\ disk' = IF pass.enriched + pass.fallbacks > 0 /\ ~pass.dryRun
                 THEN [saved |-> TRUE, content |-> companies]
                 ELSE disk
    /\ UNCHANGED <<companies, loaded, KEYS, calls, trail>>
    /\ UNCHANGED <<serverVars, mergeVars, sourceVars, mutatorVars, processVars, fanVars>>

LeadNext ==
    \/ StartExit
    \/ StartNothing
    \/ StartLoop
    \/ BatchDryRun
    \/ BatchAllFailed
    \/ \E ok \in SUBSET PROVIDERS : BatchAllResponded(ok)
    \/ BatchSingleResponded
    \/ BatchSingleFailed
    \/ BatchSingleNull
    \/ \E values \in [pass.results -> LeadValues] : ApplyCompany(values)
    \/ MainSave

(***************************************************************************)
(* Source passes over one collection (SpecSource): enrichHN of             *)
(* enrich-signals.js and enrichNews of enrich-apis.js.  A source owns its  *)
(* attributes of a record: a payload (hn_mentions / recentNews) and a      *)
(* timestamp (hn_enriched_at / news_enriched_at), so a behaviour follows   *)
(* the passes of one source.  Time is counted in whole days.               *)
(***************************************************************************)
NumRecords == 2
MaxDay == 1

STALE_DAYS == 7
NEWS_DAYS == 3
NO_GITHUB_DAYS == 30
NEWS_STALE_DAYS == 3
BatchLimit == 1
FundingValues == {0, 1, 2}

Sources == {"hn", "news", "patents", "github", "rss"}
RecordIx == 1..NumRecords

\* A timestamp attribute: missing, or the day it was written.
NoDate == [set |-> FALSE, day |-> 0]
DateOf(d) == [set |-> TRUE, day |-> d]

\* isStale(isoDate, days), evaluated when Date.now() is today.
isStale(isoDate, days, today) ==
    IF ~isoDate.set THEN TRUE ELSE today - isoDate.day > days

\* The payload is "absent" (the record has no such property), "empty"
\* (hn_mentions = 0, patents_count = 0, recentNews = [], github_org = null)
\* or "data".
NeverEnriched == [payload |-> "absent", at |-> NoDate]
Enriched(payload, d) == [payload |-> payload, at |-> DateOf(d)]

TTL(s) ==
    CASE s = "news" -> NEWS_DAYS
      [] s = "rss" -> NEWS_STALE_DAYS
      [] OTHER -> STALE_DAYS

\* What earlier passes of source s can have left on a record: nothing, or
\* a payload written together with its timestamp, one TTL ago or today
\* (for GitHub also 30 days ago, the age up to which a missing org is kept).
InitialDays(s) ==
    {0 - TTL(s), 0} \cup (IF s = "github" THEN {0 - NO_GITHUB_DAYS} ELSE {})
InitialAttributes(s) ==
    {NeverEnriched}
    \cup {Enriched(p, d) : p \in (IF s = "rss" THEN {"data"} ELSE {"empty", "data"}),
                           d \in InitialDays(s)}

\* enrichHN line 82: the record is skipped.
enrichHNSkips(c, force) ==
    ~force /\ c.payload # "absent" /\ ~isStale(c.at, STALE_DAYS, now)

\* enrichNews line 448: the record is skipped.
enrichNewsSkips(c) ==
    c.payload = "data" /\ ~isStale(c.at, NEWS_DAYS, now)

\* enrichPatents line 258: the record is skipped.
enrichPatentsSkips(c, force) ==
    ~force /\ c.payload # "absent" /\ ~isStale(c.at, STALE_DAYS, now)

\* Faulty variant: a record without org is re-checked like any other.
enrichGitHubSkipsOneTtl(c) ==
    c.payload # "absent" /\ ~isStale(c.at, STALE_DAYS, now)

\* enrichGitHub lines 162 and 168: the record is skipped.
enrichGitHubSkips(c) ==
    \/ c.payload # "absent" /\ ~isStale(c.at, STALE_DAYS, now)
    \/ c.payload = "empty" /\ ~isStale(c.at, NO_GITHUB_DAYS, now)

Skips(c) ==
    CASE source = "news" -> enrichNewsSkips(c)
      [] source = "github" -> enrichGitHubSkips(c)
      [] source = "patents" -> enrichPatentsSkips(c, sweep.force)
      [] OTHER -> enrichHNSkips(c, sweep.force)

\* fetchHN and fetchPatents answer null (request or parse failure), a zero
\* count or a count; fetchGoogleNews answers null (failure or no item) or
\* items; checkGitHubOrg and fetchGitHubRepos answer no org / null (status
\* not ok) or data, and have no try/catch: a failed request or an
\* unparsable body leaves them as an exception ("throw").
FetchResults(s) ==
    CASE s = "news" -> {"null", "data"}
      [] s = "github" -> {"null", "data", "throw"}
      [] OTHER -> {"null", "empty", "data"}

\* Lines 90-102 of enrichHN, 266-281 of enrichPatents, 456-465 of
\* enrichNews and 190-232 of enrichGitHub.
AfterFetch(c, result) ==
    CASE source = "news" ->
           Enriched(IF result = "null" THEN "empty" ELSE "data", now)
      [] source = "patents" ->
           Enriched(IF result = "null" THEN "empty" ELSE result, now)
      [] source = "github" ->
           Enriched(IF result = "null" THEN "empty" ELSE "data", now)
      [] OTHER ->
           IF result = "null" THEN c ELSE Enriched(result, now)

\* sweep.ended: the day the previous pass of this source returned, and
\* whether that pass was forced.
NoPass == [set |-> FALSE, day |-> 0, force |-> FALSE]
PassOn(d, force) == [set |-> TRUE, day |-> d, force |-> force]
\* sweep.batch, sweep.b, sweep.start: the batch of an incremental refresh,
\* the position in it, and the collection as the refresh found it.
IdleSweep == [pc |-> "idle", force |-> FALSE, k |-> 0, enriched |-> 0,
              ended |-> NoPass, batch |-> <<>>, b |-> 0, start |-> <<>>]
NoStep == [rec |-> 0, mode |-> "none", force |-> FALSE, had |-> "absent",
           at |-> NoDate, day |-> 0, attempted |-> FALSE, result |-> "none",
           after |-> NoPass]
StepOf(attempted, result) ==
    [rec |-> sweep.k, mode |-> "full", force |-> sweep.force,
     had |-> records[sweep.k].payload, at |-> records[sweep.k].at,
     day |-> now, attempted |-> attempted, result |-> result,
     after |-> sweep.ended]

SourceInit ==
    /\ source \in Sources
    /\ records \in [RecordIx -> InitialAttributes(source)]
    /\ fundingValue \in [RecordIx -> IF source = "rss" THEN FundingValues ELSE {0}]
    /\ now = 0
    /\ sweep = IdleSweep
    /\ lastStep = NoStep

SourceIdle ==
    /\ source = "none"
    /\ records = <<>>
    /\ fundingValue = <<>>
    /\ now = 0
    /\ sweep = IdleSweep
    /\ lastStep = NoStep

\* enrich-signals.js main passes --force on; enrich-apis.js main calls
\* enrichNews(companies) and enrichGitHub(companies), which have no force
\* parameter.
StartPass(force) ==
    /\ sweep.pc = "idle"
    /\ source # "rss"
    /\ source \in {"news", "github"} => ~force
    /\ sweep' = [sweep EXCEPT !.pc = "loop", !.force = force, !.k = 1,
                              !.enriched = 0, !.batch = <<>>, !.b = 0,
                              !.start = <<>>]
    /\ lastStep' = NoStep
    /\ UNCHANGED <<source, records, fundingValue, now>>
    /\ UNCHANGED <<serverVars, mergeVars, leadVars, mutatorVars, processVars, fanVars>>

SkipRecord ==
    /\ sweep.pc = "loop"
    /\ sweep.k \in RecordIx
    /\ Skips(records[sweep.k])
    /\ lastStep' = StepOf(FALSE, "none")
    /\ sweep' = [sweep EXCEPT !.k = @ + 1]
    /\ UNCHANGED <<source, records, fundingValue, now>>
    /\ UNCHANGED <<serverVars, mergeVars, leadVars, mutatorVars, processVars, fanVars>>

FetchRecord(result) ==
    /\ sweep.pc = "loop"
    /\ sweep.k \in RecordIx
    /\ ~Skips(records[sweep.k])
    /\ result \in FetchResults(source) \ {"throw"}
    /\ records' = [records EXCEPT ![sweep.k] = AfterFetch(@, result)]
    /\ lastStep' = StepOf(TRUE, result)
    /\ sweep' = [sweep EXCEPT !.k = @ + 1,
                              !.enriched = IF result = "data" THEN @ + 1 ELSE @]
    /\ UNCHANGED <<source, fundingValue, now>>
    /\ UNCHANGED <<serverVars, mergeVars, leadVars, mutatorVars, processVars, fanVars>>

\* The request of the record's fetch fails inside checkGitHubOrg or
\* fetchGitHubRepos: the exception leaves the loop and enrichGitHub.
FetchThrows ==
    /\ sweep.pc = "loop"
    /\ sweep.k \in RecordIx
    /\ ~Skips(records[sweep.k])
    /\ "throw" \in FetchResults(source)
    /\ lastStep' = StepOf(TRUE, "throw")
    /\ sweep' = [sweep EXCEPT !.pc = "idle"]
    /\ UNCHANGED <<source, records, fundingValue, now>>
    /\ UNCHANGED <<serverVars, mergeVars, leadVars, mutatorVars, processVars, fanVars>>

EndPass ==
    /\ sweep.pc = "loop"
    /\ sweep.k = NumRecords + 1
    /\ sweep' = [sweep EXCEPT !.pc = "idle", !.ended = PassOn(now, sweep.force)]
    /\ UNCHANGED <<source, records, fundingValue, now, lastStep>>
    /\ UNCHANGED <<serverVars, mergeVars, leadVars, mutatorVars, processVars, fanVars>>

(***************************************************************************)
(* The incremental refreshes: enrichGitHubIncremental of enrich-apis.js    *)
(* (source "github") and refreshNewsRSS of enrich-news.js (source "rss",   *)
(* attributes recentNews and newsEnrichedAt).                              *)
(***************************************************************************)
RECURSIVE Ascending(_)
Ascending(S) ==
    IF S = {} THEN <<>>
    ELSE LET m == CHOOSE x \in S : \A y \in S : x <= y
         IN <<m>> \o Ascending(S \ {m})

\* [...companies].filter(c => c.fundingValue).sort(by fundingValue, descending):
\* the sort is stable, records of equal funding keep the collection's order.
RECURSIVE FundedFrom(_)
FundedFrom(v) ==
    IF v = 0 THEN <<>>
    ELSE Ascending({i \in RecordIx : fundingValue[i] = v}) \o FundedFrom(v - 1)
sortedByFunding ==
    FundedFrom(CHOOSE v \in FundingValues : \A w \in FundingValues : w <= v)

\* enrichGitHubIncremental lines 245-247.
staleGitHub ==
    SelectSeq(Ascending(RecordIx),
              LAMBDA i : /\ records[i].payload = "data"
                         /\ isStale(records[i].at, STALE_DAYS, now))

\* refreshNewsRSS line 183.
staleNews ==
    SelectSeq(sortedByFunding,
              LAMBDA i : isStale(records[i].at, NEWS_STALE_DAYS, now))

\* stale.slice(0, batchSize)
Slice(seq, n) == SubSeq(seq, 1, IF Len(seq) < n THEN Len(seq) ELSE n)

IncrementalBatch ==
    Slice(IF source = "rss" THEN staleNews ELSE staleGitHub, BatchLimit)

\* fetchGitHubRepos answers null or data, or throws; fetchGoogleNewsRSS
\* answers [] (status not ok, exception, no item) or items.
IncrementalResults(s) ==
    IF s = "rss" THEN {"empty", "data"} ELSE {"null", "data", "throw"}

\* enrichGitHubIncremental lines 254-266, refreshNewsRSS lines 193-201.
AfterRefresh(c, result) ==
    IF source = "rss"
      THEN [payload |-> IF result = "data" THEN "data" ELSE c.payload,
            at |-> DateOf(now)]
      ELSE IF result = "data" THEN Enriched("data", now) ELSE c

RefreshStepOf(result) ==
    LET i == sweep.batch[sweep.b]
    IN [rec |-> i, mode |-> "incremental", force |-> FALSE,
        had |-> records[i].payload, at |-> records[i].at, day |-> now,
        attempted |-> TRUE, result |-> result, after |-> sweep.ended]

StartIncremental ==
    /\ sweep.pc = "idle"
    /\ source \in {"github", "rss"}
    /\ sweep' = [sweep EXCEPT !.pc = "incremental", !.force = FALSE, !.k = 0,
                              !.enriched = 0, !.batch = IncrementalBatch,
                              !.b = 1, !.start = records]
    /\ lastStep' = NoStep
    /\ UNCHANGED <<source, records, fundingValue, now>>
    /\ UNCHANGED <<serverVars, mergeVars, leadVars, mutatorVars, processVars, fanVars>>

RefreshRecord(result) ==
    /\ sweep.pc = "incremental"
    /\ sweep.b <= Len(sweep.batch)
    /\ result \in IncrementalResults(source) \ {"throw"}
    /\ records' = [records EXCEPT ![sweep.batch[sweep.b]] = AfterRefresh(@, result)]
    /\ lastStep' = RefreshStepOf(result)
    /\ sweep' = [sweep EXCEPT !.b = @ + 1,
                              !.enriched = IF result = "data" THEN @ + 1 ELSE @]
    /\ UNCHANGED <<source, fundingValue, now>>
    /\ UNCHANGED <<serverVars, mergeVars, leadVars, mutatorVars, processVars, fanVars>>

\* fetchGitHubRepos throws: the exception leaves enrichGitHubIncremental.
RefreshThrows ==
    /\ sweep.pc = "incremental"
    /\ sweep.b <= Len(sweep.batch)
    /\ "throw" \in IncrementalResults(source)
    /\ lastStep' = RefreshStepOf("throw")
    /\ sweep' = [sweep EXCEPT !.pc = "idle", !.b = @ + 1]
    /\ UNCHANGED <<source, records, fundingValue, now>>
    /\ UNCHANGED <<serverVars, mergeVars, leadVars, mutatorVars, processVars, fanVars>>

EndIncremental ==
    /\ sweep.pc = "incremental"
    /\ sweep.b = Len(sweep.batch) + 1
    /\ sweep' = [sweep EXCEPT !.pc = "idle"]
    /\ UNCHANGED <<source, records, fundingValue, now, lastStep>>
    /\ UNCHANGED <<serverVars, mergeVars, leadVars, mutatorVars, processVars, fanVars>>

\* A day goes by (between passes or while one is waiting for an answer).
Tick ==
    /\ now < MaxDay
    /\ now' = now + 1
    /\ UNCHANGED <<source, records, fundingValue, sweep, lastStep>>
    /\ UNCHANGED <<serverVars, mergeVars, leadVars, mutatorVars, processVars, fanVars>>

SourceNext ==
    \/ \E force \in BOOLEAN : StartPass(force)
    \/ SkipRecord
    \/ \E result \in {"null", "empty", "data"} : FetchRecord(result)
    \/ FetchThrows
    \/ EndPass
    \/ StartIncremental
    \/ \E result \in {"null", "empty", "data"} : RefreshRecord(result)
    \/ RefreshThrows
    \/ EndIncremental
    \/ Tick

(***************************************************************************)
(* The event-driven mutator (SpecMutator, SpecEvent): applyEvent and the   *)
(* event loop, sort and re-index of runDailyUpdate (updater.js).           *)
(* A record keeps id, name, funding, fundingValue, fundingRounds and       *)
(* status; the other display fields an event writes (valuation, lastRound, *)
(* investors, description, maInsight, acquiredBy, lastAutoUpdate) are left *)
(* out.  Strings that are parsed (amounts) are sequences of characters.    *)
(***************************************************************************)

\* name.toLowerCase()
ToLower(name) ==
    CASE name = "ACME AI" -> "acme ai"
      [] name = "Acme AI" -> "acme ai"
      [] name = "Beta" -> "beta"
      [] name = "Nova" -> "nova"
      [] name = "Zed Labs" -> "zed labs"
      [] OTHER -> name

\* a.localeCompare(b) on lower-case names: the position in the collation.
Collation(lower) ==
    CASE lower = "acme ai" -> 1
      [] lower = "beta" -> 2
      [] lower = "nova" -> 3
      [] lower = "zed labs" -> 4
      [] OTHER -> 5

\* Math.max() of no argument is -Infinity, and -Infinity + 1 is -Infinity:
\* it is kept as an integer below every id.
NegInfinity == 0 - 1000000
PlusOne(x) == IF x = NegInfinity THEN NegInfinity ELSE x + 1

RECURSIVE MathMax(_)
MathMax(S) ==
    IF S = {} THEN NegInfinity
    ELSE LET x == CHOOSE y \in S : TRUE
             m == MathMax(S \ {x})
         IN IF x > m THEN x ELSE m

\* A decimal number n * 10^e with n not a multiple of 10 (or n = 0, e = 0).
RECURSIVE Decimal(_, _)
Decimal(n, e) ==
    IF n = 0 THEN <<0, 0>>
    ELSE IF n % 10 = 0 THEN Decimal(n \div 10, e + 1) ELSE <<n, e>>

DigitChars == {"0", "1", "2", "3", "4", "5", "6", "7", "8", "9"}
DigitOf(ch) ==
    CASE ch = "0" -> 0 [] ch = "1" -> 1 [] ch = "2" -> 2 [] ch = "3" -> 3
      [] ch = "4" -> 4 [] ch = "5" -> 5 [] ch = "6" -> 6 [] ch = "7" -> 7
      [] ch = "8" -> 8 [] OTHER -> 9

\* The end of the run of [\d.] characters that starts at position i.
RECURSIVE RunEnd(_, _)
RunEnd(str, i) ==
    IF i < Len(str) /\ str[i + 1] \in DigitChars \cup {"."}
      THEN RunEnd(str, i + 1) ELSE i

\* The first position after i that is not white space.
RECURSIVE SkipSpaces(_, _)
SkipSpaces(str, i) ==
    IF i <= Len(str) /\ str[i] = " " THEN SkipSpaces(str, i + 1) ELSE i

\* amount.match(/([\d.]+)\s*(M|B|T)/i): the leftmost match, as
\* [found, digits (group 1), suffix (group 2)].
RECURSIVE MatchFrom(_, _)
MatchFrom(str, i) ==
    IF i > Len(str) THEN [found |-> FALSE, digits |-> <<>>, suffix |-> ""]
    ELSE IF str[i] \notin DigitChars \cup {"."} THEN MatchFrom(str, i + 1)
    ELSE LET j == RunEnd(str, i)
             k == SkipSpaces(str, j + 1)
         IN IF k <= Len(str) /\ str[k] \in {"M", "B", "T", "m", "b", "t"}
              THEN [found |-> TRUE, digits |-> SubSeq(str, i, j), suffix |-> str[k]]
              ELSE MatchFrom(str, i + 1)
AmountMatch(amount) == MatchFrom(amount, 1)

\* parseFloat(digits): the integer part, then one "." and the fraction;
\* reading stops at a second ".".  The value is n / 10^frac.
RECURSIVE ParseFloatFrom(_, _, _, _, _)
ParseFloatFrom(digits, i, n, frac, dotted) ==
    IF i > Len(digits) THEN [n |-> n, frac |-> frac]
    ELSE IF digits[i] = "."
      THEN IF dotted THEN [n |-> n, frac |-> frac]
                     ELSE ParseFloatFrom(digits, i + 1, n, frac, TRUE)
      ELSE ParseFloatFrom(digits, i + 1, 10 * n + DigitOf(digits[i]),
                          IF dotted THEN frac + 1 ELSE frac, dotted)
parseFloat(digits) == ParseFloatFrom(digits, 1, 0, 0, FALSE)

\* Faulty variant: the T suffix is taken for millions' neighbour B.
MultExponentWithoutT(suffix) == IF suffix \in {"B", "b", "T", "t"} THEN 9 ELSE 6

\* suffix.toUpperCase() === 'B' ? 1e9 : ... === 'T' ? 1e12 : 1e6, as a
\* power of ten.
MultExponent(suffix) ==
    CASE suffix \in {"B", "b"} -> 9
      [] suffix \in {"T", "t"} -> 12
      [] OTHER -> 6

\* num * mult
FundingValueOf(m) ==
    LET num == parseFloat(m.digits)
    IN Decimal(num.n, MultExponent(m.suffix) - num.frac)
MaxBook == 2
MaxEvents == 2

BookNames == {"Acme AI", "Beta", "Zed Labs"}
EventCompanies == {"ACME AI", "Beta", "Nova"}

NoValue == <<0, 0>>
Chars50M == <<"$", "5", "0", "M">>
Chars10M == <<"$", "1", "0", "M">>
\* The amounts an event can carry: none, and strings with an M, B or T
\* suffix in either case, with a fraction, with a blank, or with no suffix.
Amounts ==
    {<<>>, Chars50M, <<"$", "1", ".", "2", "B">>, <<"3", " ", "t">>,
     <<"2", "5", "0", "m">>, <<"$", "5", "0", "0", "K">>}

\* new Date().toISOString().slice(0, 7)
ThisMonth == "2026-11"

RoundEntry(stage, amount, date, investors) ==
    [stage |-> stage, amount |-> amount, date |-> date, investors |-> investors]
OldRound == RoundEntry("Seed", Chars10M, "2023-05", "")

Company(id, name, rounds) ==
    [id |-> id, name |-> name, funding |-> Chars10M, fundingValue |-> <<1, 7>>,
     fundingRounds |-> rounds, status |-> "active"]

\* The arrays fetchCompaniesJson can return: up to MaxBook records with
\* different names and different positive ids, in any order, each with or
\* without an earlier funding round.
BooksOfLen(n) ==
    {[i \in 1..n |-> Company(ids[i], names[i], rounds[i])] :
        ids \in {f \in [1..n -> 1..(n + 1)] : \A i, j \in 1..n : i # j => f[i] # f[j]},
        names \in {f \in [1..n -> BookNames] : \A i, j \in 1..n : i # j => f[i] # f[j]},
        rounds \in [1..n -> {<<>>, <<OldRound>>}]}
InitialBooks == UNION {BooksOfLen(n) : n \in 0..MaxBook}

Event(type, company, confidence, amount, round, investors, date) ==
    [type |-> type, company |-> company, confidence |-> confidence,
     amount |-> amount, round |-> round, investors |-> investors, date |-> date]

\* Events of every shape: a missing detail is "" (<<>> for the amount).
AllEvents ==
    {Event("funding", co, cf, am, rd, x[1], x[2]) :
        co \in EventCompanies, cf \in {"high", "medium", "low"}, am \in Amounts,
        rd \in {"", "Series B"}, x \in {<<"", "">>, <<"a16z", "2025-01-01">>}}
    \cup {Event(ty, co, cf, am, "", "", "2025-01-01") :
            ty \in {"acquisition", "ipo", "milestone"}, co \in EventCompanies,
            cf \in {"high", "low"}, am \in {<<>>, Chars50M}}

FewEvents ==
    {Event("funding", co, "high", Chars50M, "Series B", "", "2025-01-01") :
        co \in EventCompanies}
    \cup {Event("funding", "Nova", "low", Chars50M, "Series B", "", "2025-01-01"),
          Event("funding", "Beta", "high", <<>>, "", "", ""),
          Event("acquisition", "Beta", "high", <<>>, "", "", "2025-01-01"),
          Event("ipo", "ACME AI", "high", <<>>, "", "", "2025-01-01"),
          Event("milestone", "Nova", "high", <<>>, "", "", "")}

EventPool(pool) == IF pool = "all" THEN AllEvents ELSE FewEvents

\* companies.find(c => c.name.toLowerCase() === nameKey): its position, or 0.
FindExisting(cs, event) ==
    LET hits == {i \in 1..Len(cs) : ToLower(cs[i].name) = ToLower(event.company)}
    IN IF hits = {} THEN 0 ELSE CHOOSE i \in hits : \A j \in hits : i <= j

\* Faulty variant: the history is replaced by the new entry.
ApplyFundingRewriting(c, event) ==
    [c EXCEPT !.funding = event.amount,
              !.fundingRounds = <<RoundEntry(event.round, event.amount,
                                             event.date, event.investors)>>]

\* updater.js lines 77-111.
ApplyFunding(c, event) ==
    LET m == AmountMatch(event.amount)
    IN [c EXCEPT
          !.funding = IF event.amount # <<>> THEN event.amount ELSE @,
          !.fundingValue = IF event.amount # <<>> /\ m.found
                             THEN FundingValueOf(m) ELSE @,
          !.fundingRounds =
              IF event.round # "" /\ event.amount # <<>>
                THEN Append(@, RoundEntry(event.round, event.amount,
                                          IF event.date # "" THEN event.date
                                                             ELSE ThisMonth,
                                          event.investors))
                ELSE @]

\* updater.js lines 113-122.
ApplyAcquisition(c, event) ==
    [c EXCEPT !.status = "acquired",
              !.funding = <<"Acquired by">> \o
                          (IF event.amount # <<>> THEN event.amount
                                                  ELSE <<"undisclosed">>)]

\* updater.js lines 124-131.
ApplyIpo(c, event) == [c EXCEPT !.funding = <<"IPO'd">>]

\* updater.js lines 133-166.
NewCompany(cs, event) ==
    LET m == AmountMatch(event.amount)
    IN [id |-> PlusOne(MathMax({cs[i].id : i \in 1..Len(cs)})),
        name |-> event.company,
        funding |-> IF event.amount # <<>> THEN event.amount ELSE <<"Unknown">>,
        fundingValue |-> IF event.amount # <<>> /\ m.found
                           THEN FundingValueOf(m) ELSE NoValue,
        fundingRounds |-> <<>>,
        status |-> "active"]

\* applyEvent(companies, event): the array afterwards and the result
\* ("null" when applyEvent returns null).
applyEvent(cs, event) ==
    LET x == FindExisting(cs, event)
    IN CASE event.type = "funding" /\ x # 0 ->
              [companies |-> [cs EXCEPT ![x] = ApplyFunding(@, event)],
               action |-> "updated"]
         [] event.type = "acquisition" /\ x # 0 ->
              [companies |-> [cs EXCEPT ![x] = ApplyAcquisition(@, event)],
               action |-> "updated_acquisition"]
         [] event.type = "ipo" /\ x # 0 ->
              [companies |-> [cs EXCEPT ![x] = ApplyIpo(@, event)],
               action |-> "updated_ipo"]
         [] event.type = "funding" /\ x = 0 /\ event.confidence = "high" ->
              [companies |-> Append(cs, NewCompany(cs, event)),
               action |-> "added"]
         [] OTHER -> [companies |-> cs, action |-> "null"]
\* Faulty variant: the array is left in the order it has.
SortByNothing(cs) == cs

\* companies.sort((a, b) => a.name.toLowerCase().localeCompare(
\* b.name.toLowerCase())): a stable sort, the first of the least goes first.
SortKey(c) == Collation(ToLower(c.name))
RemoveAt(seq, i) == SubSeq(seq, 1, i - 1) \o SubSeq(seq, i + 1, Len(seq))
RECURSIVE SortByName(_)
SortByName(cs) ==
    IF cs = <<>> THEN <<>>
    ELSE LET least == {i \in 1..Len(cs) :
                          \A j \in 1..Len(cs) : SortKey(cs[i]) <= SortKey(cs[j])}
             i == CHOOSE x \in least : \A y \in least : x <= y
         IN <<cs[i]>> \o SortByName(RemoveAt(cs, i))

\* companies.forEach((c, i) => { c.id = i + 1; })
ReIndex(cs) == [i \in 1..Len(cs) |-> [cs[i] EXCEPT !.id = i]]

NoEvent == Event("none", "", "", <<>>, "", "", "")
NoLast == [event |-> NoEvent, before |-> <<>>, action |-> "none"]

MutatorInit(pool, most) ==
    /\ book \in InitialBooks
    /\ news \in {[left |-> n, pool |-> pool] : n \in 0..most}
    /\ daily = [pc |-> "loop", total |-> news.left, changes |-> 0,
                loaded |-> book]
    /\ lastEvent = NoLast

MutatorIdle ==
    /\ book = <<>>
    /\ news = [left |-> 0, pool |-> "none"]
    /\ daily = [pc |-> "off", total |-> 0, changes |-> 0, loaded |-> <<>>]
    /\ lastEvent = NoLast

\* Lines 182-189: searchForNews returned no event.
NoEvents ==
    /\ daily.pc = "loop"
    /\ daily.total = 0
    /\ daily' = [daily EXCEPT !.pc = "returned"]
    /\ UNCHANGED <<book, news, lastEvent>>
    /\ UNCHANGED <<serverVars, mergeVars, leadVars, sourceVars, processVars, fanVars>>

\* Line 194: a low-confidence event is skipped.
SkipLowConfidence(event) ==
    /\ daily.pc = "loop"
    /\ news.left > 0
    /\ event \in EventPool(news.pool)
    /\ event.confidence = "low"
    /\ news' = [news EXCEPT !.left = @ - 1]
    /\ lastEvent' = [event |-> event, before |-> book, action |-> "skipped"]
    /\ UNCHANGED <<book, daily>>
    /\ UNCHANGED <<serverVars, mergeVars, leadVars, sourceVars, processVars, fanVars>>

\* Lines 195-196: applyEvent, and its result pushed to changes if not null.
ApplyOneEvent(event) ==
    /\ daily.pc = "loop"
    /\ news.left > 0
    /\ event \in EventPool(news.pool)
    /\ event.confidence # "low"
    /\ LET r == applyEvent(book, event)
       IN /\ book' = r.companies
          /\ daily' = [daily EXCEPT !.changes = IF r.action # "null" THEN @ + 1 ELSE @]
          /\ lastEvent' = [event |-> event, before |-> book, action |-> r.action]
    /\ news' = [news EXCEPT !.left = @ - 1]
    /\ UNCHANGED <<serverVars, mergeVars, leadVars, sourceVars, processVars, fanVars>>

\* Lines 199-206: events, but no change.
NoChanges ==
    /\ daily.pc = "loop"
    /\ daily.total > 0
    /\ news.left = 0
    /\ daily.changes = 0
    /\ daily' = [daily EXCEPT !.pc = "returned"]
    /\ UNCHANGED <<book, news, lastEvent>>
    /\ UNCHANGED <<serverVars, mergeVars, leadVars, sourceVars, processVars, fanVars>>

\* Lines 208-213: sort, re-index, and hand the array to updateCompaniesJson.
SortAndSave ==
    /\ daily.pc = "loop"
    /\ news.left = 0
    /\ daily.changes > 0
    /\ book' = ReIndex(SortByName(book))
    /\ daily' = [daily EXCEPT !.pc = "saving"]
    /\ UNCHANGED <<news, lastEvent>>
    /\ UNCHANGED <<serverVars, mergeVars, leadVars, sourceVars, processVars, fanVars>>

MutatorNext ==
    \/ NoEvents
    \/ \E event \in AllEvents \cup FewEvents : SkipLowConfidence(event)
    \/ \E event \in AllEvents \cup FewEvents : ApplyOneEvent(event)
    \/ NoChanges
    \/ SortAndSave

(***************************************************************************)
(* Whole runs of the enrichment programs over the stored collection: main  *)
(* of enrich-signals.js (enrichAll), main of enrich-apis.js, main of       *)
(* enrich-news.js in rss mode, and runSignalEnrichment of server.js.  A    *)
(* run loads the collection, runs its passes one after the other over the  *)
(* array in memory and saves it when the passes counted a change.  The     *)
(* runs of one behaviour follow each other within the same day.            *)
(***************************************************************************)
MaxRuns == 2
RunBatchLimit == 2

Programs == {"signals", "apis", "newsrss", "server"}

\* The passes a program awaits, in order.  The eight passes of SOURCE_MAP
\* come in two shapes: a failed fetch writes nothing (enrichHN), or it
\* writes a zero count and the timestamp (enrichPatents); "signals" runs one
\* pass of each shape.
Schedule(program) ==
    CASE program = "signals" -> <<"hn", "patents">>
      [] program = "apis" -> <<"github", "sec", "news", "wikidata">>
      [] program = "newsrss" -> <<"rss">>
      [] OTHER -> <<"githubInc", "rss">>

Incremental(p) == p \in {"githubInc", "rss"}

\* The attribute group a pass reads and writes.
GroupOf(p) == IF p = "githubInc" THEN "github" ELSE p
GroupsOf(program) ==
    {GroupOf(Schedule(program)[n]) : n \in DOMAIN Schedule(program)}

\* enrichSEC and enrichWikidata write sec_cik / wikidata_id and no timestamp.
Undated(g) == g \in {"sec", "wikidata"}

\* What earlier runs can have left in a group: nothing ("new"), a result of
\* today ("known"), or an older one ("old": a result older than every TTL,
\* or, in the undated groups, a "not found").
InitialGroup(g, kind) ==
    CASE kind = "new" -> NeverEnriched
      [] kind = "known" ->
           IF Undated(g) THEN [payload |-> "data", at |-> NoDate]
                         ELSE Enriched("data", 0)
      [] OTHER ->
           IF Undated(g) THEN [payload |-> "empty", at |-> NoDate]
                         ELSE Enriched("data", 0 - NO_GITHUB_DAYS - 1)

\* The skip test of a full pass: enrichHN line 82, enrichPatents line 258,
\* enrichGitHub lines 162 and 168, enrichNews line 448, enrichSEC line 364,
\* enrichWikidata line 523 (no --force in these runs).
PassSkips(p, c, day) ==
    CASE p \in {"hn", "patents"} ->
           c.payload # "absent" /\ ~isStale(c.at, STALE_DAYS, day)
      [] p = "github" ->
           \/ c.payload # "absent" /\ ~isStale(c.at, STALE_DAYS, day)
           \/ c.payload = "empty" /\ ~isStale(c.at, NO_GITHUB_DAYS, day)
      [] p = "news" ->
           c.payload = "data" /\ ~isStale(c.at, NEWS_DAYS, day)
      [] OTHER -> c.payload # "absent"

\* searchSECFullText / fetchSECSubmissions and queryWikidata answer null
\* (nothing found, or the request failed) or data.
PassResults(p) == IF Undated(p) THEN {"null", "data"} ELSE FetchResults(p)

\* What a full pass writes on the record after its fetch.
PassWrites(p, c, result, day) ==
    CASE p = "hn" -> IF result = "null" THEN c ELSE Enriched(result, day)
      [] p = "patents" ->
           Enriched(IF result = "null" THEN "empty" ELSE result, day)
      [] p \in {"github", "news"} ->
           Enriched(IF result = "null" THEN "empty" ELSE "data", day)
      [] OTHER ->
           [payload |-> IF result = "null" THEN "empty" ELSE "data", at |-> c.at]

\* refreshNewsRSS lines 179-181 over the funding values f.
RECURSIVE FundedIn(_, _)
FundedIn(f, v) ==
    IF v = 0 THEN <<>>
    ELSE Ascending({i \in RecordIx : f[i] = v}) \o FundedIn(f, v - 1)

\* The batch of an incremental refresh: enrichGitHubIncremental lines
\* 245-248, refreshNewsRSS lines 179-184.
RefreshBatch(p, m, f, day) ==
    Slice(IF p = "rss"
            THEN SelectSeq(FundedIn(f, CHOOSE v \in FundingValues :
                                          \A w \in FundingValues : w <= v),
                           LAMBDA i : isStale(m[i]["rss"].at, NEWS_STALE_DAYS, day))
            ELSE SelectSeq(Ascending(RecordIx),
                           LAMBDA i : /\ m[i]["github"].payload = "data"
                                      /\ isStale(m[i]["github"].at, STALE_DAYS, day)),
          RunBatchLimit)

\* enrichGitHubIncremental lines 254-266, refreshNewsRSS lines 193-201.
RefreshWrites(p, c, result, day) ==
    IF p = "rss"
      THEN [payload |-> IF result = "data" THEN "data" ELSE c.payload,
            at |-> DateOf(day)]
      ELSE IF result = "data" THEN Enriched("data", day) ELSE c

\* proc.fetched: the fetches of the run so far, in order, and whether the
\* pass changed the record after each; proc.previous: those of the run
\* before.  proc.dirty: some record of the array in memory was changed;
\* proc.saved: the run wrote the array to the store.
IdleProc ==
    [program |-> "none", pc |-> "off", queue |-> <<>>, cur |-> "none",
     k |-> 0, batch |-> <<>>, b |-> 0, count |-> 0, total |-> 0, runs |-> 0,
     fetched |-> <<>>, previous |-> <<>>, dirty |-> FALSE, saved |-> FALSE,
     day |-> 0]

FetchOf(p, i, wrote) == [pass |-> p, rec |-> i, wrote |-> wrote]

ProcessInit ==
    /\ \E program \in Programs, kinds \in [RecordIx -> {"new", "known", "old"}] :
         /\ proc = [IdleProc EXCEPT !.program = program]
         /\ store = [i \in RecordIx |->
                       [g \in GroupsOf(program) |-> InitialGroup(g, kinds[i])]]
         /\ funds \in IF "rss" \in GroupsOf(program)
                        THEN [RecordIx -> FundingValues]
                        ELSE {[i \in RecordIx |-> 0]}
    /\ mem = <<>>

ProcessIdle ==
    /\ store = <<>>
    /\ funds = <<>>
    /\ mem = <<>>
    /\ proc = IdleProc

\* A process starts: main (or runSignalEnrichment) calls loadCompanies.
ProcStart ==
    /\ proc.pc \in {"off", "ended"}
    /\ proc.program # "none"
    /\ proc.runs < MaxRuns
    /\ mem' = store
    /\ proc' = [proc EXCEPT !.pc = "next", !.queue = Schedule(proc.program),
                            !.cur = "none", !.k = 0, !.batch = <<>>, !.b = 0,
                            !.count = 0, !.total = 0, !.runs = @ + 1,
                            !.previous = proc.fetched, !.fetched = <<>>,
                            !.dirty = FALSE, !.saved = FALSE]
    /\ UNCHANGED <<store, funds>>
    /\ UNCHANGED <<serverVars, mergeVars, leadVars, sourceVars, mutatorVars, fanVars>>

\* The next pass is called; an incremental refresh selects its batch.
PassBegin ==
    /\ proc.pc = "next"
    /\ proc.queue # <<>>
    /\ LET p == Head(proc.queue) IN
         proc' = [proc EXCEPT
                    !.queue = Tail(@), !.cur = p, !.count = 0,
                    !.pc = IF Incremental(p) THEN "batch" ELSE "pass",
                    !.k = IF Incremental(p) THEN 0 ELSE 1,
                    !.b = IF Incremental(p) THEN 1 ELSE 0,
                    !.batch = IF Incremental(p)
                                THEN RefreshBatch(p, mem, funds, proc.day)
                                ELSE <<>>]
    /\ UNCHANGED <<store, funds, mem>>
    /\ UNCHANGED <<serverVars, mergeVars, leadVars, sourceVars, mutatorVars, fanVars>>

PassSkip ==
    /\ proc.pc = "pass"
    /\ proc.k \in RecordIx
    /\ PassSkips(proc.cur, mem[proc.k][GroupOf(proc.cur)], proc.day)
    /\ proc' = [proc EXCEPT !.k = @ + 1]
    /\ UNCHANGED <<store, funds, mem>>
    /\ UNCHANGED <<serverVars, mergeVars, leadVars, sourceVars, mutatorVars, fanVars>>

PassFetch(result) ==
    /\ proc.pc = "pass"
    /\ proc.k \in RecordIx
    /\ result \in PassResults(proc.cur) \ {"throw"}
    /\ LET g == GroupOf(proc.cur)
           c == mem[proc.k][g]
           after == PassWrites(proc.cur, c, result, proc.day)
       IN /\ ~PassSkips(proc.cur, c, proc.day)
          /\ mem' = [mem EXCEPT ![proc.k][g] = after]
          /\ proc' = [proc EXCEPT
                        !.k = @ + 1,
                        !.count = IF result = "data" THEN @ + 1 ELSE @,
                        !.fetched = Append(@, FetchOf(proc.cur, proc.k, after # c)),
                        !.dirty = @ \/ after # c]
    /\ UNCHANGED <<store, funds>>
    /\ UNCHANGED <<serverVars, mergeVars, leadVars, sourceVars, mutatorVars, fanVars>>

\* checkGitHubOrg or fetchGitHubRepos throws inside enrichGitHub: main of
\* enrich-apis.js rejects and the process exits (lines 631-634).
PassThrows ==
    /\ proc.pc = "pass"
    /\ proc.k \in RecordIx
    /\ "throw" \in PassResults(proc.cur)
    /\ ~PassSkips(proc.cur, mem[proc.k][GroupOf(proc.cur)], proc.day)
    /\ proc' = [proc EXCEPT !.pc = "ended",
                            !.fetched = Append(@, FetchOf(proc.cur, proc.k, FALSE))]
    /\ mem' = <<>>
    /\ UNCHANGED <<store, funds>>
    /\ UNCHANGED <<serverVars, mergeVars, leadVars, sourceVars, mutatorVars, fanVars>>

\* The pass returns its count, which the program adds to its total.
PassEnd ==
    /\ proc.pc = "pass"
    /\ proc.k = NumRecords + 1
    /\ proc' = [proc EXCEPT !.pc = "next", !.total = @ + proc.count]
    /\ UNCHANGED <<store, funds, mem>>
    /\ UNCHANGED <<serverVars, mergeVars, leadVars, sourceVars, mutatorVars, fanVars>>

BatchFetch(result) ==
    /\ proc.pc = "batch"
    /\ proc.b <= Len(proc.batch)
    /\ result \in IncrementalResults(proc.cur) \ {"throw"}
    /\ LET i == proc.batch[proc.b]
           g == GroupOf(proc.cur)
           c == mem[i][g]
           after == RefreshWrites(proc.cur, c, result, proc.day)
       IN /\ mem' = [mem EXCEPT ![i][g] = after]
          /\ proc' = [proc EXCEPT
                        !.b = @ + 1,
                        !.count = IF result = "data" THEN @ + 1 ELSE @,
                        !.fetched = Append(@, FetchOf(proc.cur, i, after # c)),
                        !.dirty = @ \/ after # c]
    /\ UNCHANGED <<store, funds>>
    /\ UNCHANGED <<serverVars, mergeVars, leadVars, sourceVars, mutatorVars, fanVars>>

\* fetchGitHubRepos throws inside enrichGitHubIncremental: the catch of
\* runSignalEnrichment (lines 157-159) leaves ghCount at 0 and goes on.
BatchThrows ==
    /\ proc.pc = "batch"
    /\ proc.b <= Len(proc.batch)
    /\ "throw" \in IncrementalResults(proc.cur)
    /\ proc' = [proc EXCEPT
                  !.pc = "next", !.count = 0,
                  !.fetched = Append(@, FetchOf(proc.cur, proc.batch[proc.b], FALSE))]
    /\ UNCHANGED <<store, funds, mem>>
    /\ UNCHANGED <<serverVars, mergeVars, leadVars, sourceVars, mutatorVars, fanVars>>

BatchEnd ==
    /\ proc.pc = "batch"
    /\ proc.b = Len(proc.batch) + 1
    /\ proc' = [proc EXCEPT !.pc = "next", !.total = @ + proc.count]
    /\ UNCHANGED <<store, funds, mem>>
    /\ UNCHANGED <<serverVars, mergeVars, leadVars, sourceVars, mutatorVars, fanVars>>

\* if (totalChanges > 0) saveCompanies(companies), and the run ends.
ProcSave ==
    /\ proc.pc = "next"
    /\ proc.queue = <<>>
    /\ proc.total > 0
    /\ store' = mem
    /\ mem' = <<>>
    /\ proc' = [proc EXCEPT !.pc = "ended", !.saved = TRUE]
    /\ UNCHANGED funds
    /\ UNCHANGED <<serverVars, mergeVars, leadVars, sourceVars, mutatorVars, fanVars>>

\* totalChanges is 0: "No new signal data to push", and the run ends.
ProcNoSave ==
    /\ proc.pc = "next"
    /\ proc.queue = <<>>
    /\ proc.total = 0
    /\ mem' = <<>>
    /\ proc' = [proc EXCEPT !.pc = "ended"]
    /\ UNCHANGED <<store, funds>>
    /\ UNCHANGED <<serverVars, mergeVars, leadVars, sourceVars, mutatorVars, fanVars>>

ProcessNext ==
    \/ ProcStart
    \/ PassBegin
    \/ PassSkip
    \/ \E result \in {"null", "empty", "data"} : PassFetch(result)
    \/ PassThrows
    \/ PassEnd
    \/ \E result \in {"null", "empty", "data"} : BatchFetch(result)
    \/ BatchThrows
    \/ BatchEnd
    \/ ProcSave
    \/ ProcNoSave

(***************************************************************************)
(* One batch of enrichLeadership in consensus mode (SpecFanOut): the calls *)
(* to the providers are started together, settle in any order, and the     *)
(* merged list is written for the batch's record.                          *)
(***************************************************************************)
\* The sets of API keys of the runs taken here.
FanKeyChoices == {{"claude", "openai"}, {"openai", "grok"},
                  {"claude", "openai", "gemini"}}

\* What a provider's response holds for the record.
FanValues ==
    {ArrayOf(<<Leader("CEO", "Jane Doe")>>),
     ArrayOf(<<Leader("CEO", "JANE DOE ")>>),
     ArrayOf(<<Leader("CEO", "John Roe"), Leader("CEO", "Jane Doe")>>)}

\* The outcome of one call: [p, parsed], or [p, null] when the call or the
\* parse threw (lines 258-266).
FanResponses ==
    {[ok |-> TRUE, value |-> v] : v \in FanValues}
    \cup {[ok |-> FALSE, value |-> NotArray]}

\* mergeLeadership lines 174-186 over Object.values(resultsByProvider), the
\* providers taken in the order their results were inserted.
RECURSIVE CollectVotesIn(_, _, _, _, _)
CollectVotesIn(order, votes, resultsByProvider, companyName, k) ==
    IF k > Len(order) THEN votes
    ELSE LET leaders == LeadersOf(resultsByProvider[order[k]], companyName) IN
         CollectVotesIn(order,
                        IF leaders.isArray THEN CountLeaders(votes, leaders.list, 1)
                                           ELSE votes,
                        resultsByProvider, companyName, k + 1)

mergeLeadershipIn(order, resultsByProvider, companyName) ==
    LET votes == CollectVotesIn(order, <<>>, resultsByProvider, companyName, 1)
        threshold == Threshold(resultsByProvider)
        kept == SelectSeq(votes, LAMBDA v : v.count >= threshold)
        sorted == SortByCountDesc(kept)
    IN  [k \in 1..Len(sorted) |-> Leader(sorted[k].role, sorted[k].name)]

\* Faulty variant: each result is inserted when its call settles.
InsertionOrderByArrival(names, arrived, responses) ==
    SelectSeq(arrived, LAMBDA p : responses[p].ok)

\* Lines 268-271: Promise.all resolves to the outcomes in the order of the
\* calls, whatever the order they settled in; the parsed ones are inserted
\* into results in that order.
InsertionOrder(names, arrived, responses) ==
    SelectSeq(names, LAMBDA p : responses[p].ok)

\* The results object: provider -> parsed response.
ResultsOf(order, responses) ==
    [p \in {order[k] : k \in 1..Len(order)} |->
        [n \in {TheCompany} |-> responses[p].value]]

FanInit ==
    \E keys \in FanKeyChoices :
       fan \in [pc : {"batch"},
                names : {SelectSeq(ProviderOrder, LAMBDA p : p \in keys)},
                responses : [keys -> FanResponses],
                called : {[p \in PROVIDERS |-> 0]},
                arrived : {<<>>},
                results : {<<>>},
                written : {NoLeadership}]

FanIdle == fan = [pc |-> "off"]

\* Line 257: providerNames.map starts one call per provider.
FanCalls ==
    /\ fan.pc = "batch"
    /\ fan' = [fan EXCEPT
                 !.pc = "waiting",
                 !.called = [p \in PROVIDERS |->
                               IF \E k \in 1..Len(fan.names) : fan.names[k] = p
                                 THEN @[p] + 1 ELSE @[p]]]
    /\ UNCHANGED <<serverVars, mergeVars, leadVars, sourceVars, mutatorVars, processVars>>

\* Lines 258-266: the call to provider p settles.
FanSettles(p) ==
    /\ fan.pc = "waiting"
    /\ p \in DOMAIN fan.responses
    /\ \A k \in 1..Len(fan.arrived) : fan.arrived[k] # p
    /\ fan' = [fan EXCEPT !.arrived = Append(@, p)]
    /\ UNCHANGED <<serverVars, mergeVars, leadVars, sourceVars, mutatorVars, processVars>>

\* Lines 268-271 and 293-297: every call has settled; the batch is given
\* up when no provider gave a parsed response.
FanGathers ==
    /\ fan.pc = "waiting"
    /\ Len(fan.arrived) = Len(fan.names)
    /\ LET results == InsertionOrder(fan.names, fan.arrived, fan.responses) IN
         fan' = [fan EXCEPT !.results = results,
                            !.pc = IF results = <<>> THEN "failed" ELSE "apply"]
    /\ UNCHANGED <<serverVars, mergeVars, leadVars, sourceVars, mutatorVars, processVars>>

\* Lines 300-314: the merged list is written when it is not empty.
FanApplies ==
    /\ fan.pc = "apply"
    /\ LET leaders == mergeLeadershipIn(fan.results,
                                        ResultsOf(fan.results, fan.responses),
                                        TheCompany)
       IN fan' = [fan EXCEPT
                    !.pc = "done",
                    !.written = IF Len(leaders) > 0 THEN LeadershipOf(leaders) ELSE @]
    /\ UNCHANGED <<serverVars, mergeVars, leadVars, sourceVars, mutatorVars, processVars>>

FanNext ==
    \/ FanCalls
    \/ \E p \in PROVIDERS : FanSettles(p)
    \/ FanGathers
    \/ FanApplies

ServerIdle ==
    /\ repo = {}
    /\ localFile = NoFile
    /\ run = [r \in Runs |-> IdleRun]
    /\ updateLogs = [r \in Runs |-> <<>>]
    /\ updateSecret = Unset
    /\ lastStatus = 0

vars == <<serverVars, mergeVars, leadVars, sourceVars, mutatorVars, processVars,
          fanVars>>

InitServer ==
    ServerInit /\ MergeIdle /\ LeadIdle /\ SourceIdle /\ MutatorIdle /\ ProcessIdle
    /\ FanIdle
InitMerge ==
    ServerIdle /\ MergeInit /\ LeadIdle /\ SourceIdle /\ MutatorIdle /\ ProcessIdle
    /\ FanIdle
InitLead ==
    ServerIdle /\ MergeIdle /\ LeadInit /\ SourceIdle /\ MutatorIdle /\ ProcessIdle
    /\ FanIdle
InitSource ==
    ServerIdle /\ MergeIdle /\ LeadIdle /\ SourceInit /\ MutatorIdle /\ ProcessIdle
    /\ FanIdle
InitMutator ==
    ServerIdle /\ MergeIdle /\ LeadIdle /\ SourceIdle /\ ProcessIdle
    /\ FanIdle
    /\ MutatorInit("few", MaxEvents)
InitEvent ==
    ServerIdle /\ MergeIdle /\ LeadIdle /\ SourceIdle /\ ProcessIdle
    /\ FanIdle
    /\ MutatorInit("all", 1)
InitProcess ==
    ServerIdle /\ MergeIdle /\ LeadIdle /\ SourceIdle /\ MutatorIdle /\ ProcessInit
    /\ FanIdle
InitFanOut ==
    ServerIdle /\ MergeIdle /\ LeadIdle /\ SourceIdle /\ MutatorIdle /\ ProcessIdle
    /\ FanInit

SpecServer == InitServer /\ [][ServerNext]_vars

\* Every step of run r after its start: a call that settles, one way or
\* the other, and the synchronous code that follows it.
RunStep(r) ==
    \/ FetchCompaniesOk(r) \/ FetchCompaniesFail(r)
    \/ SearchThrows(r) \/ SearchNoChanges(r) \/ SearchApplies(r)
    \/ SaveGetOk(r) \/ SaveGetFail(r)
    \/ SavePutOk(r) \/ SavePutConflict(r)
    \/ SigLoadRemoteOk(r) \/ SigLoadRemoteFail(r)
    \/ SigEnrichNothing(r) \/ SigEnrichSome(r)
    \/ SigGetOk(r) \/ SigGetFail(r)
    \/ SigPutOk(r) \/ SigPutConflict(r)

\* The server under the event loop's scheduling: every pending call of a
\* run settles and its continuation runs (fetch resolves or rejects; the
\* handlers are not cancelled).
SpecServerFair ==
    InitServer /\ [][ServerNext]_vars /\ \A r \in Runs : WF_vars(RunStep(r))

SpecMerge == InitMerge /\ [][MergeNext]_vars

SpecLead == InitLead /\ [][LeadNext]_vars

SpecSource == InitSource /\ [][SourceNext]_vars

\* A step of a full pass, and a step of an incremental refresh.
PassStep ==
    SkipRecord \/ (\E result \in {"null", "empty", "data"} : FetchRecord(result))
    \/ FetchThrows \/ EndPass
RefreshStep ==
    (\E result \in {"null", "empty", "data"} : RefreshRecord(result))
    \/ RefreshThrows \/ EndIncremental

\* The passes under repeated invocation: every fetch settles, one way or
\* the other, every pass that was started comes to its end, and the
\* incremental refresh is invoked again and again (the daily cron run).
SpecSourceFair ==
    InitSource /\ [][SourceNext]_vars
    /\ WF_vars(PassStep) /\ WF_vars(RefreshStep) /\ SF_vars(StartIncremental)

\* A run whose search returned up to MaxEvents events of the common shapes.
SpecMutator == InitMutator /\ [][MutatorNext]_vars

\* A run whose search returned at most one event, of any shape.
SpecEvent == InitEvent /\ [][MutatorNext]_vars

SpecProcess == InitProcess /\ [][ProcessNext]_vars

SpecFanOut == InitFanOut /\ [][FanNext]_vars

(***************************************************************************)
(* Claims about the record store and the server's runs (SpecServer).       *)
(***************************************************************************)

\* C1: a save whose version token (the one the run's load returned) is no
\* longer the store's current one is rejected -- every daily save that
\* succeeded found the store still at the version the run had loaded.
C1_StaleSaveRejected ==
    \A r \in Runs : run[r].dailyPut = "ok" => ~run[r].dailyPutStale

\* C2: of two runs that loaded the same store version, at most one save
\* succeeds (the other one ends in a Conflict).
C2_AtMostOneSaveSucceeds ==
    \A r1, r2 \in Runs :
        (r1 # r2 /\ run[r1].loadedSha # NoSha
                 /\ run[r1].loadedSha = run[r2].loadedSha)
        => ~(run[r1].dailyPut = "ok" /\ run[r2].dailyPut = "ok")

(***************************************************************************)
(* Claims about mergeLeadership (SpecMerge).                               *)
(***************************************************************************)

\* The well-formed keys provider p proposes for the company.
ProposedKeys(p) ==
    LET leaders == LeadersOf(mergeIn[p], TheCompany) IN
    IF leaders.isArray
      THEN {VoteKey(leaders.list[k]) :
                k \in {j \in 1..Len(leaders.list) : WellFormed(leaders.list[j])}}
      ELSE {}

VotersOf(key) == {p \in DOMAIN mergeIn : key \in ProposedKeys(p)}

AcceptedKeys == {VoteKey(mergeOut[k]) : k \in 1..Len(mergeOut)}

AllProposedKeys == UNION {ProposedKeys(p) : p \in DOMAIN mergeIn}

\* C3: a (role, name) pair is in the merged result iff at least 2 distinct
\* providers voted for it when 2 or more providers responded, or at least
\* one did when exactly one provider responded.
C3_AcceptedIffEnoughProviders ==
    mergeDone =>
        \A key \in AllProposedKeys \cup AcceptedKeys :
            key \in AcceptedKeys <=>
                Cardinality(VotersOf(key)) >=
                    (IF Cardinality(DOMAIN mergeIn) >= 2 THEN 2 ELSE 1)

(***************************************************************************)
(* Claims about a run of the leadership enrichment (SpecLead).             *)
(***************************************************************************)
TrailIx == 1..Len(trail)

\* The records of the batch at offset i.
BatchAt(i) == {pass.needs[k] : k \in BatchPositions(pass.needs, i)}

\* The offsets of the batches of the run, and of those handled so far.
AllOffsets == {i \in 0..Len(pass.needs) : i < Len(pass.needs) /\ i % BATCH_SIZE = 0}
OffsetsSeen == {trail[k].i : k \in {j \in TrailIx : trail[j].kind # "apply"}}

CeoOnly(c) == LeadershipOf(<<Leader("CEO", c.ceo)>>)

\* C4: without --force, a record that had a non-empty leadership list when
\* the run loaded it keeps that list, whatever the providers do.
C4_NoForceKeepsLeadership ==
    (pass.pc # "off" /\ ~pass.force) =>
        \A x \in Indices :
            ~LacksLeadership(loaded[x]) =>
                companies[x].leadership = loaded[x].leadership

C4_Witness ==
    /\ pass.pc = "done" /\ ~pass.force /\ disk.saved
    /\ \E x \in Indices : ~LacksLeadership(loaded[x])
    /\ \E x \in Indices : companies[x].leadership # loaded[x].leadership

\* C5: every record's leadership is absent or a non-empty list whose entries
\* all have a role and a name.
C5_LeadershipAbsentOrNonEmpty ==
    \A x \in DOMAIN companies :
        LET l == companies[x].leadership IN
        l.present => /\ l.list # <<>>
                     /\ \A k \in 1..Len(l.list) :
                            l.list[k].role # "" /\ l.list[k].name # ""

\* A forced run replaced a list by one taken from a response that also held
\* a malformed entry.
C5_Witness ==
    /\ pass.pc = "done" /\ pass.force
    /\ \E x \in Indices :
          /\ ~LacksLeadership(loaded[x])
          /\ companies[x].leadership = LeadershipOf(<<Leader("CTO", "Bob Lee")>>)

\* C6: when a provider responded for the batch, a record that got zero
\* accepted pairs has exactly [{CEO, its known CEO}] tagged "fallback" if it
\* has a known CEO, and is unchanged if it has none.
C6_ZeroPairsFallBack ==
    \A k \in TrailIx :
        (trail[k].kind = "apply" /\ trail[k].n = 0) =>
            LET x == trail[k].x IN
            IF loaded[x].ceo # ""
              THEN /\ companies[x].leadership = CeoOnly(loaded[x])
                   /\ companies[x].leadershipSource = "fallback"
              ELSE companies[x] = loaded[x]

C6_Witness ==
    /\ \E k \in TrailIx : /\ trail[k].kind = "apply" /\ trail[k].n = 0
                          /\ loaded[trail[k].x].ceo # ""
                          /\ ~LacksLeadership(loaded[trail[k].x])
    /\ \E k \in TrailIx : /\ trail[k].kind = "apply" /\ trail[k].n = 0
                          /\ loaded[trail[k].x].ceo = ""

\* Every batch of a run that came to its end was handled.
EveryBatchHandled ==
    pass.pc \in {"returned", "done"} => OffsetsSeen = AllOffsets

\* C7 as stated: after the single provider failed for a batch, every record
\* of the batch (that has a known CEO) holds the known-CEO list, and the run
\* goes on with the next batch.
C7_FailedBatchAllFallBack ==
    /\ \A k \in TrailIx :
          trail[k].kind = "single-failed" =>
              \A x \in BatchAt(trail[k].i) :
                  loaded[x].ceo # "" => companies[x].leadership = CeoOnly(loaded[x])
    /\ EveryBatchHandled

\* C7 amended: ... every record of the batch that has a known CEO and no
\* leadership list yet holds the known-CEO list, every other record of the
\* batch is unchanged, and the run goes on with the next batch.
C7_FailedBatchFallsBackWhereEmpty ==
    /\ \A k \in TrailIx :
          trail[k].kind = "single-failed" =>
              \A x \in BatchAt(trail[k].i) :
                  IF loaded[x].ceo # "" /\ LacksLeadership(loaded[x])
                    THEN companies[x].leadership = CeoOnly(loaded[x])
                    ELSE companies[x] = loaded[x]
    /\ EveryBatchHandled

\* The first batch failed and fell back, a later batch got a response.
C7_Witness ==
    /\ pass.pc = "done"
    /\ \E k \in TrailIx :
          /\ trail[k].kind = "single-failed"
          /\ \E x \in BatchAt(trail[k].i) : companies[x].leadership # loaded[x].leadership
          /\ \E x \in BatchAt(trail[k].i) : ~LacksLeadership(loaded[x])
          /\ \E j \in TrailIx : j > k /\ trail[j].kind = "responded"

\* C8: in consensus mode a batch for which every provider failed leaves its
\* records unmodified, the run does not abort, and every later batch is
\* still handled.
C8_AllFailedBatchUntouched ==
    /\ \A k \in TrailIx :
          trail[k].kind = "all-failed" =>
              /\ \A x \in BatchAt(trail[k].i) : companies[x] = loaded[x]
              /\ pass.pc \notin {"crashed", "exited"}
              /\ pass.pc = "batch" => pass.i > trail[k].i
    /\ (pass.pc # "off" /\ pass.modelArg = "all") => EveryBatchHandled

C8_Witness ==
    /\ pass.pc = "done"
    /\ \E k \in TrailIx :
          /\ trail[k].kind = "all-failed"
          /\ \E j \in TrailIx : /\ j > k /\ trail[j].kind = "apply"
                                /\ companies[trail[j].x] # loaded[trail[j].x]

\* C9: a run requested for a provider whose API key is absent aborts at
\* once: no provider is called, no record is changed, nothing is saved.
C9_MissingKeyAborts ==
    (pass.pc # "off" /\ pass.modelArg # "all" /\ pass.modelArg \notin KEYS) =>
        /\ pass.pc \in {"main", "exited"}
        /\ \A p \in PROVIDERS : calls[p] = 0
        /\ companies = loaded
        /\ ~disk.saved

C9_Witness ==
    /\ pass.pc = "exited"
    /\ pass.modelArg \notin KEYS
    /\ \E x \in Indices : LacksLeadership(companies[x])

(***************************************************************************)
(* Claims about the source passes (SpecSource).                            *)
(***************************************************************************)

\* C10: a pass with force=false attempts a record if and only if the
\* source's timestamp on the record is absent or older than the source's
\* TTL in days; a pass with force=true attempts every record.
C10_AttemptedIffDue ==
    lastStep.rec # 0 =>
        (lastStep.attempted <=>
            \/ lastStep.force
            \/ ~lastStep.at.set
            \/ lastStep.day - lastStep.at.day > TTL(source))

\* C11: when a pass with force=false starts right after a pass with
\* force=false of the same source returned (no time has gone by), it makes
\* no external call: it fetches for no record.
C11_SecondRunFetchesNothing ==
    (/\ lastStep.rec # 0
     /\ ~lastStep.force
     /\ lastStep.after.set
     /\ ~lastStep.after.force
     /\ lastStep.after.day = lastStep.day)
        => ~lastStep.attempted

\* C12: a record for which the fetch failed carries, right after that
\* step, the source's no-result sentinel and the timestamp of the fetch.
C12_FailedFetchIsMarked ==
    lastStep.result = "null" =>
        records[lastStep.rec] = Enriched("empty", lastStep.day)

\* C13: a failure while one record is processed does not end the pass:
\* whenever no pass is running, the last one (if any) went through every
\* record of the collection.
C13_FailureDoesNotAbortPass ==
    sweep.pc = "idle" => sweep.k \in {0, NumRecords + 1}

\* The records an incremental refresh has fetched for so far.
Refreshed == {sweep.batch[j] : j \in 1..(sweep.b - 1)}

\* C14: one invocation of an incremental refresh fetches for at most its
\* batch size of records, only for records that are stale and hold a prior
\* result of the source, and leaves every other record unchanged.
C14_IncrementalBounded ==
    /\ sweep.b - 1 <= BatchLimit
    /\ lastStep.mode = "incremental" =>
           /\ lastStep.had = "data"
           /\ lastStep.at.set => lastStep.day - lastStep.at.day > TTL(source)
    /\ sweep.start # <<>> =>
           \A i \in RecordIx \ Refreshed : records[i] = sweep.start[i]

(***************************************************************************)
(* Claims about the event-driven mutator (SpecMutator, SpecEvent).         *)
(***************************************************************************)
Ids(cs) == {cs[i].id : i \in 1..Len(cs)}
Unmatched(cs, event) ==
    \A i \in 1..Len(cs) : ToLower(cs[i].name) # ToLower(event.company)
\* The state right after lastEvent was handled (the array is not yet sorted).
JustHandled == lastEvent.action # "none" /\ daily.pc = "loop"
IsPrefix(a, b) == Len(a) <= Len(b) /\ SubSeq(b, 1, Len(a)) = a

\* C15: a funding event for a company that matches no record
\* (case-insensitively) creates no record with confidence "low", and with
\* confidence "high" appends exactly one record, named after the event's
\* company, whose id is the largest existing id plus 1 (1 when the array
\* was empty).
\* Unmatched acquisition, ipo and milestone events leave the array as it was.
C15_InsertGating ==
    (JustHandled /\ Unmatched(lastEvent.before, lastEvent.event)) =>
        LET e == lastEvent.event
            before == lastEvent.before
        IN /\ (e.type = "funding" /\ e.confidence = "low") => book = before
           /\ (e.type = "funding" /\ e.confidence = "high") =>
                 /\ Len(book) = Len(before) + 1
                 /\ SubSeq(book, 1, Len(before)) = before
                 /\ book[Len(book)].name = e.company
                 /\ \E m \in Ids(before) \cup {0} :
                       /\ \A x \in Ids(before) : x <= m
                       /\ book[Len(book)].id = m + 1
           /\ e.type \in {"acquisition", "ipo", "milestone"} => book = before

\* C16: the array handed to updateCompaniesJson is sorted by lower-case
\* name and the id of every record is its 1-based position.
C16_SavedSortedAndIndexed ==
    daily.pc = "saving" =>
        /\ \A i, j \in 1..Len(book) :
              i < j => Collation(ToLower(book[i].name)) <= Collation(ToLower(book[j].name))
        /\ \A i \in 1..Len(book) : book[i].id = i

C16_Witness ==
    /\ daily.pc = "saving"
    /\ Len(book) = 3
    /\ lastEvent.action = "added"
    /\ book[2].name = "Nova"

\* C17: at every point of a run no two records of the array share an id
\* and every id is a positive integer.
C17_IdsUniqueAndPositive ==
    /\ \A i \in 1..Len(book) : book[i].id \in Nat \ {0}
    /\ \A i, j \in 1..Len(book) : i # j => book[i].id # book[j].id

\* The history of the record named n ("no record" has none).
RoundsOf(cs, n) ==
    LET hits == {i \in 1..Len(cs) : cs[i].name = n}
    IN IF hits = {} THEN <<>> ELSE cs[CHOOSE i \in hits : TRUE].fundingRounds

AmountMeaning(amount) ==
    CASE amount = Chars50M -> <<5, 7>>
      [] amount = <<"$", "1", ".", "2", "B">> -> <<12, 8>>
      [] amount = <<"3", " ", "t">> -> <<3, 12>>
      [] amount = <<"2", "5", "0", "m">> -> <<25, 7>>
      [] OTHER -> NoValue
HasSuffix(amount) == AmountMeaning(amount) # NoValue

\* The record a funding event was applied to, before and after.
Target == FindExisting(lastEvent.before, lastEvent.event)
FundingApplied == JustHandled /\ lastEvent.action = "updated"

\* C19 as stated: a funding event applied to a record sets funding to the
\* amount, fundingValue to the amount's value, and appends exactly one
\* entry {stage: round, amount, date, investors or ""}.
C19_FundingEventApplied ==
    FundingApplied =>
        LET e == lastEvent.event
            old == lastEvent.before[Target]
            new == book[Target]
        IN /\ new.funding = e.amount
           /\ HasSuffix(e.amount) => new.fundingValue = AmountMeaning(e.amount)
           /\ new.fundingRounds =
                 Append(old.fundingRounds,
                        RoundEntry(e.round, e.amount, e.date, e.investors))

\* C19, amended: funding is set when the event has an amount, fundingValue
\* when the amount has a number with an M, B or T suffix, and one entry is
\* appended when the event has both a round and an amount (dated with the
\* event's date, or the current month); otherwise each is left as it was.
C19_FundingEventAppliedWhenPresent ==
    FundingApplied =>
        LET e == lastEvent.event
            old == lastEvent.before[Target]
            new == book[Target]
        IN /\ new.funding = IF e.amount # <<>> THEN e.amount ELSE old.funding
           /\ new.fundingValue = IF HasSuffix(e.amount) THEN AmountMeaning(e.amount)
                                                        ELSE old.fundingValue
           /\ new.fundingRounds =
                 IF e.round # "" /\ e.amount # <<>>
                   THEN Append(old.fundingRounds,
                               RoundEntry(e.round, e.amount,
                                          IF e.date # "" THEN e.date ELSE ThisMonth,
                                          e.investors))
                   ELSE old.fundingRounds
           /\ \A i \in 1..Len(book) : i # Target => book[i] = lastEvent.before[i]

C19_Witness ==
    /\ FundingApplied
    /\ lastEvent.event.amount = <<"3", " ", "t">>
    /\ lastEvent.event.round = "Series B"
    /\ Len(book[Target].fundingRounds) = 2

(***************************************************************************)
(* Claims about the trigger endpoint (SpecServer).                         *)
(***************************************************************************)

\* C20: with UPDATE_SECRET configured, a POST /trigger whose secret differs
\* from it or is missing cannot be accepted and is answered 401, and the
\* step that answers 401 starts no run and adds nothing to the history;
\* with no UPDATE_SECRET configured no request is answered 401, and any
\* request is accepted.
C20_TriggerGuard ==
    /\ [](\A secret \in Supplied :
            /\ (updateSecret # Unset /\ secret # updateSecret) =>
                  /\ ~ENABLED TriggerAccepted(secret)
                  /\ ENABLED TriggerRejected(secret)
            /\ updateSecret = Unset =>
                  /\ ~ENABLED TriggerRejected(secret)
                  /\ run["trigger"].pc = "idle" => ENABLED TriggerAccepted(secret))
    /\ [][lastStatus' = 401 =>
            /\ updateSecret # Unset
            /\ lastStatus # 401 => (run' = run /\ updateLogs' = updateLogs
                                     /\ repo' = repo /\ localFile' = localFile)]_vars

C20_Witness ==
    /\ lastStatus = 401
    /\ updateSecret # Unset
    /\ run["trigger"] = IdleRun
    /\ updateLogs["trigger"] = <<>>
    /\ run["cron"].pc # "idle"

\* C21: an accepted POST /trigger is acknowledged in the step that starts
\* its run, before anything of the run has happened, and the acknowledgment
\* is never withdrawn; the run then eventually leaves an entry in the run
\* history, and a step that ends the run otherwise than by completing the
\* signal enrichment (a failed call, a 409 of a save) appends an error entry
\* and leaves the other run and the server's state as they are.
C21_AckThenHistoryEntry ==
    /\ [][(run["trigger"].pc = "idle" /\ run'["trigger"].pc # "idle") =>
             /\ run'["trigger"].acked
             /\ lastStatus' = 200
             /\ run'["trigger"].pc = "fetch"
             /\ updateLogs' = updateLogs /\ repo' = repo]_vars
    /\ [][run["trigger"].acked => run'["trigger"].acked]_vars
    /\ (run["trigger"].pc = "fetch") ~>
          (run["trigger"].pc = "done" /\ Len(updateLogs["trigger"]) > 0)
    /\ [][(run["trigger"].pc \notin {"idle", "done"} /\ run'["trigger"].pc = "done") =>
             /\ run'["cron"] = run["cron"]
             /\ updateLogs'["cron"] = updateLogs["cron"]
             /\ \/ updateLogs'["trigger"] = Append(updateLogs["trigger"], "error")
                \/ /\ run["trigger"].pc \in {"sigEnrich", "sigPut"}
                   /\ run'["trigger"].sigPut # "conflict"
                   /\ updateLogs' = updateLogs
                   /\ Len(updateLogs["trigger"]) > 0]_vars

C21_Witness ==
    /\ run["trigger"].pc = "done"
    /\ run["trigger"].acked
    /\ run["trigger"].dailyPut = "conflict"
    /\ updateLogs["trigger"] = <<"error">>

\* C26: when a run's daily update has saved its event changes and the
\* signal enrichment of the same run then saves too, the store holds the
\* run's event changes right after the second save.
C26_DailyChangesSurviveSignalSave ==
    [][\A r \in Runs :
         (run[r].sigPut # "ok" /\ run'[r].sigPut = "ok"
            /\ run[r].changed /\ run[r].dailyPut = "ok")
         => <<"ev", r>> \in repo']_vars

\* C27: every run that has ended has appended exactly one entry to the run
\* history, and no run ever appends more than one.
C27_OneEntryPerRun ==
    \A r \in Runs :
       /\ Len(updateLogs[r]) <= 1
       /\ run[r].pc = "done" => Len(updateLogs[r]) = 1

\* C22: within one pass of a run the records are fetched in the order of
\* the collection, and the fetches of one pass are contiguous: no fetch of
\* another pass lies between two fetches of the same pass.
C22_CollectionOrderNoInterleaving ==
    \A i, j \in DOMAIN proc.fetched :
       (i < j /\ proc.fetched[i].pass = proc.fetched[j].pass) =>
          /\ proc.fetched[i].rec < proc.fetched[j].rec
          /\ \A n \in i..j : proc.fetched[n].pass = proc.fetched[i].pass

\* C23: when a pass of a run has returned, every attribute group of every
\* record in memory is never attempted (no payload, no timestamp), attempted
\* without result (timestamp, empty or no payload) or populated (timestamp
\* and payload): no group holds a payload without its own timestamp.
C23_PayloadOnlyWithTimestamp ==
    (proc.pc = "next" /\ proc.cur # "none") =>
       \A i \in DOMAIN mem : \A g \in DOMAIN mem[i] :
          mem[i][g].payload # "absent" => mem[i][g].at.set

\* C24: every record whose leadership list the run has written carries a
\* provenance tag: "consensus" in consensus mode, else the provider's name,
\* or "fallback" when the list was taken from the known-CEO field; a list
\* written by the fallback after a failed single-provider call is tagged
\* "fallback".
C24_WrittenListsAreTagged ==
    \A x \in Indices :
       companies[x].leadership # loaded[x].leadership =>
          /\ companies[x].leadershipSource \in
                (IF pass.modelArg = "all" THEN {"consensus"} ELSE {pass.modelArg})
                \cup {"fallback"}
          /\ (\E k \in TrailIx : /\ trail[k].kind = "single-failed"
                                 /\ x \in BatchAt(trail[k].i))
               => companies[x].leadershipSource = "fallback"

\* C25: the full GitHub pass queries a record whose github_org is null
\* exactly when its timestamp is more than 30 days old, a record with a
\* known org exactly when its timestamp is more than 7 days old, and a
\* record it never attempted always.
C25_GitHubRecheckTtl ==
    (source = "github" /\ lastStep.rec # 0 /\ lastStep.mode = "full") =>
       /\ lastStep.had = "empty" =>
             (lastStep.attempted <=>
                 lastStep.day - lastStep.at.day > NO_GITHUB_DAYS)
       /\ lastStep.had = "data" =>
             (lastStep.attempted <=>
                 lastStep.day - lastStep.at.day > STALE_DAYS)
       /\ lastStep.had = "absent" => lastStep.attempted

\* A record without org, checked 8 days ago, is passed over.
C25_Witness ==
    /\ source = "github"
    /\ lastStep.mode = "full"
    /\ lastStep.had = "empty"
    /\ lastStep.day - lastStep.at.day = STALE_DAYS + 1
    /\ ~lastStep.attempted
    /\ \E i \in RecordIx : records[i].payload = "data" /\ records[i].at = DateOf(now)

\* C28: in consensus mode every provider that has a key is called exactly
\* once for the batch, the merged list is computed and written only after
\* every call has settled, and the list written (members and order) is
\* that of the responses merged in the order of the calls, whatever the
\* order in which the responses arrived.
C28_ArrivalOrderIrrelevant ==
    /\ fan.pc \notin {"off", "batch"} =>
          \A p \in PROVIDERS :
             fan.called[p] = IF p \in DOMAIN fan.responses THEN 1 ELSE 0
    /\ fan.pc \in {"apply", "done", "failed"} =>
          {fan.arrived[k] : k \in 1..Len(fan.arrived)} = DOMAIN fan.responses
    /\ fan.pc \in {"batch", "waiting", "failed"} =>
          (fan.results = <<>> /\ fan.written = NoLeadership)
    /\ fan.pc = "done" =>
          LET parsed == {p \in DOMAIN fan.responses : fan.responses[p].ok}
              merged == mergeLeadership(
                            [p \in parsed |->
                               [n \in {TheCompany} |-> fan.responses[p].value]],
                            TheCompany)
          IN fan.written = IF Len(merged) > 0 THEN LeadershipOf(merged)
                                              ELSE NoLeadership

\* The responses arrived in another order than the calls were made, and
\* merging them in the order of arrival would have given another list.
C28_Witness ==
    /\ fan.pc = "done"
    /\ fan.written.present
    /\ fan.arrived # fan.names
    /\ LET byArrival == InsertionOrderByArrival(fan.names, fan.arrived, fan.responses)
       IN mergeLeadershipIn(byArrival, ResultsOf(byArrival, fan.responses), TheCompany)
             # fan.written.list

\* C29: under repeated invocations of the incremental GitHub refresh, every
\* record that has a known org and a stale timestamp is eventually fetched.
C29_StaleRecordEventuallyFetched ==
    \A i \in RecordIx :
       (source = "github" /\ sweep.pc = "idle"
          /\ records[i].payload = "data"
          /\ isStale(records[i].at, STALE_DAYS, now))
       ~> (lastStep.rec = i /\ lastStep.attempted)

\* C30: a run that changed a record in memory, be it only by a "no result"
\* value or a refreshed timestamp, has saved the collection when it ends,
\* and the next run, on the same day, fetches for no record that the run
\* before it fetched for and changed.
C30_ChangesSavedBeforeRunEnds ==
    /\ (proc.pc = "ended" /\ proc.dirty) => proc.saved
    /\ \A m \in DOMAIN proc.previous : \A n \in DOMAIN proc.fetched :
          proc.previous[m].wrote =>
             ~(/\ proc.fetched[n].pass = proc.previous[m].pass
               /\ proc.fetched[n].rec = proc.previous[m].rec)

====
